---- MODULE Spec2Model ----
(***************************************************************************)
(* A model of the EOOS library doubly linked list                          *)
(* (library::AbstractLinkedList, library::LinkedList and its private       *)
(* Iterator).  Nodes live in a small arena; the list anchors the ring of   *)
(* nodes at last_, and every structural change raises count_.              *)
(***************************************************************************)
EXTENDS Integers, Sequences, FiniteSets, TLC

\* ------------------------------------------------------------------ bounds
MaxNodes == 3
MaxElem == 1
MaxCount == 4
NumIters == 1
CounterBits == 2
MaxLen == 3
IntBits == 4
MaxStr == 2
MaxChar == 2
MaxStored == 5
SizeOfType == 4

\* --------------------------------------------------------------- constants
NULL == 0
ILLEGAL_INDEX == -1

NodeIds == 1..MaxNodes
Vals == 0..MaxElem
Indices == -1..(MaxNodes + 1)

VARIABLES
    heap,         \* NodeIds -> [elem, next, prev, index]: the nodes' fields
    alloc,        \* the set of nodes the allocator has handed out
    last_,        \* AbstractLinkedList::last_
    count_,       \* AbstractLinkedList::count_, the number of changes
    illegal_,     \* AbstractLinkedList::illegal_
    constructed,  \* Object::isConstructed() of the list
    its,          \* IterIds -> the iterator objects
    fault,        \* TRUE once the program has stopped on an illegal access
    call,         \* the last call that changed the state, with its result
    adds,         \* the calls of the list's add that returned true
    removes,      \* the elements removed by calls that returned true
    buffer,       \* the Buffer a call of array() returned to the program
    changes,      \* the list's own changes since its iterator was created
    string        \* the dynamic string the program holds, with its memory

vars ==
    <<heap, alloc, last_, count_, illegal_, constructed, its, fault, call, adds,
      removes, buffer, changes, string>>

\* The iterator objects the program may hold at a time.
IterIds == DOMAIN its

\* ------------------------------------------------------------------- nodes
\* The fields of a slot of the arena that holds no node.
FreeNode == [elem |-> 0, next |-> NULL, prev |-> NULL, index |-> 0]

RECURSIVE RingWalk(_, _, _)
RingWalk(h, cur, acc) ==
    IF cur = NULL \/ cur \in acc THEN acc
    ELSE RingWalk(h, h[cur].next, acc \cup {cur})

\* The nodes linked, through next, in the ring of node n.
Ring(h, n) == RingWalk(h, n, {})

\* LinkedNode(element): an isolated node, its own neighbour, index 0.
NodeNew(h, n, e) ==
    [h EXCEPT ![n] = [elem |-> e, next |-> n, prev |-> n, index |-> 0]]

\* a->insertAfter(n): n is spliced in after a; the nodes after a shift up.
insertAfter(h, a, n) ==
    LET nx == h[a].next
        ring == Ring(h, a)
    IN [m \in NodeIds |->
          IF m = n
          THEN [h[n] EXCEPT !.prev = a, !.next = nx, !.index = h[a].index + 1]
          ELSE LET r1 == IF m = a THEN [h[m] EXCEPT !.next = n] ELSE h[m]
                   r2 == IF m = nx THEN [r1 EXCEPT !.prev = n] ELSE r1
               IN IF m \in ring /\ h[m].index > h[a].index
                  THEN [r2 EXCEPT !.index = @ + 1]
                  ELSE r2]

\* b->insertBefore(n): n is spliced in before b; b and the nodes after it
\* shift up.
insertBefore(h, b, n) ==
    LET pv == h[b].prev
        ring == Ring(h, b)
    IN [m \in NodeIds |->
          IF m = n
          THEN [h[n] EXCEPT !.prev = pv, !.next = b, !.index = h[b].index]
          ELSE LET r1 == IF m = pv THEN [h[m] EXCEPT !.next = n] ELSE h[m]
                   r2 == IF m = b THEN [r1 EXCEPT !.prev = n] ELSE r1
               IN IF m \in ring /\ h[m].index >= h[b].index
                  THEN [r2 EXCEPT !.index = @ + 1]
                  ELSE r2]

\* delete n: n leaves its ring, the nodes after it shift down, the slot is
\* free again.
NodeDelete(h, n) ==
    LET pv == h[n].prev
        nx == h[n].next
        ring == Ring(h, n)
    IN [m \in NodeIds |->
          IF m = n
          THEN FreeNode
          ELSE LET r1 == IF m = pv THEN [h[m] EXCEPT !.next = nx] ELSE h[m]
                   r2 == IF m = nx THEN [r1 EXCEPT !.prev = pv] ELSE r1
               IN IF m \in ring /\ h[m].index > h[n].index
                  THEN [r2 EXCEPT !.index = @ - 1]
                  ELSE r2]

\* new Node: the lowest free slot, or NULL when the allocator gives nothing
\* (mem is the allocator's answer when it has room).
NodeAllocate(al, mem) ==
    IF mem /\ (NodeIds \ al) # {}
    THEN CHOOSE n \in NodeIds \ al : \A m \in NodeIds \ al : n <= m
    ELSE NULL

\* ---------------------------------------------------------------- the list
\* The list's fields as one value, as the operators below pass it on.
ListState ==
    [heap |-> heap, alloc |-> alloc, last_ |-> last_, count_ |-> count_,
     constructed |-> constructed]

getLength(L) ==
    IF L.last_ = NULL THEN 0 ELSE L.heap[L.last_].index + 1

isEmpty(L) == L.last_ = NULL

isIndex(L, index) == 0 <= index /\ index < getLength(L)

\* isIndexOutOfBounds without its test of a negative index.
isIndexOutOfBounds_NoLowerBound(L, index) == index > getLength(L)

isIndexOutOfBounds(L, index) == index < 0 \/ index > getLength(L)

RECURSIVE NodeStep(_, _, _)
NodeStep(h, node, k) ==
    IF k <= 0 \/ node = NULL THEN node ELSE NodeStep(h, h[node].next, k - 1)

\* getNodeByIndex with its walk begun at last_ and not at the node after it.
getNodeByIndex_FromLast(L, index) ==
    IF ~isIndex(L, index) THEN NULL
    ELSE IF index = getLength(L) - 1 THEN L.last_
    ELSE NodeStep(L.heap, L.last_, index)

getNodeByIndex(L, index) ==
    IF ~isIndex(L, index) THEN NULL
    ELSE IF index = getLength(L) - 1 THEN L.last_
    ELSE NodeStep(L.heap, L.heap[L.last_].next, index)

RECURSIVE NodeScan(_, _, _, _)
NodeScan(h, node, k, element) ==
    IF k <= 0 \/ node = NULL THEN NULL
    ELSE IF h[node].elem = element THEN node
    ELSE NodeScan(h, h[node].next, k - 1, element)

\* getNodeByElement with its scan begun at last_ and not at the node after it.
getNodeByElement_FromLast(L, element) ==
    LET len == getLength(L)
    IN IF len = 0 THEN NULL
       ELSE NodeScan(L.heap, L.last_, len, element)

\* getNodeByElement with a scan that stops one node short of the last.
getNodeByElement_ShortScan(L, element) ==
    LET len == getLength(L)
    IN IF len = 0 THEN NULL
       ELSE NodeScan(L.heap, L.heap[L.last_].next, len - 1, element)

getNodeByElement(L, element) ==
    LET len == getLength(L)
    IN IF len = 0 THEN NULL
       ELSE NodeScan(L.heap, L.heap[L.last_].next, len, element)

\* delete of a node the list allocated: the node's destructor, then the
\* allocator's free.
DeleteNode(L, node) ==
    [L EXCEPT !.heap = NodeDelete(@, node), !.alloc = @ \ {node}]

\* addNode without the move of last_ to a node inserted after it.
addNode_KeepsLast(L, index, element, mem) ==
    IF isIndexOutOfBounds(L, index)
    THEN [L |-> L, ret |-> FALSE]
    ELSE
    LET node == NodeAllocate(L.alloc, mem)
    IN IF node = NULL
       THEN [L |-> L, ret |-> FALSE]
       ELSE
       LET L1 == [L EXCEPT !.heap = NodeNew(@, node, element),
                           !.alloc = @ \cup {node}]
       IN IF L1.last_ = NULL
          THEN [L |-> [L1 EXCEPT !.last_ = node, !.count_ = @ + 1],
                ret |-> TRUE]
          ELSE IF index > 0
          THEN LET after == getNodeByIndex(L1, index - 1)
               IN IF after = NULL
                  THEN [L |-> DeleteNode(L1, node), ret |-> FALSE]
                  ELSE [L |-> [L1 EXCEPT
                                 !.heap = insertAfter(@, after, node),
                                 !.count_ = @ + 1],
                        ret |-> TRUE]
          ELSE LET before == getNodeByIndex(L1, 0)
               IN IF before = NULL
                  THEN [L |-> DeleteNode(L1, node), ret |-> FALSE]
                  ELSE [L |-> [L1 EXCEPT
                                 !.heap = insertBefore(@, before, node),
                                 !.count_ = @ + 1],
                        ret |-> TRUE]

\* addNode with every insertion at an index above 0 made before the node of
\* that index's predecessor and not after it.
addNode_BeforePredecessor(L, index, element, mem) ==
    IF isIndexOutOfBounds(L, index)
    THEN [L |-> L, ret |-> FALSE]
    ELSE
    LET node == NodeAllocate(L.alloc, mem)
    IN IF node = NULL
       THEN [L |-> L, ret |-> FALSE]
       ELSE
       LET L1 == [L EXCEPT !.heap = NodeNew(@, node, element),
                           !.alloc = @ \cup {node}]
       IN IF L1.last_ = NULL
          THEN [L |-> [L1 EXCEPT !.last_ = node, !.count_ = @ + 1],
                ret |-> TRUE]
          ELSE LET before == getNodeByIndex(L1, IF index > 0 THEN index - 1
                                                ELSE 0)
               IN IF before = NULL
                  THEN [L |-> DeleteNode(L1, node), ret |-> FALSE]
                  ELSE [L |-> [L1 EXCEPT
                                 !.heap = insertBefore(@, before, node),
                                 !.count_ = @ + 1],
                        ret |-> TRUE]

addNode(L, index, element, mem) ==
    IF isIndexOutOfBounds(L, index)
    THEN [L |-> L, ret |-> FALSE]
    ELSE
    LET node == NodeAllocate(L.alloc, mem)
    IN IF node = NULL
       THEN [L |-> L, ret |-> FALSE]
       ELSE
       LET L1 == [L EXCEPT !.heap = NodeNew(@, node, element),
                           !.alloc = @ \cup {node}]
       IN IF L1.last_ = NULL
          THEN [L |-> [L1 EXCEPT !.last_ = node, !.count_ = @ + 1],
                ret |-> TRUE]
          ELSE IF index > 0
          THEN LET after == getNodeByIndex(L1, index - 1)
               IN IF after = NULL
                  THEN [L |-> DeleteNode(L1, node), ret |-> FALSE]
                  ELSE [L |-> [L1 EXCEPT
                                 !.heap = insertAfter(@, after, node),
                                 !.last_ = IF after = @ THEN node ELSE @,
                                 !.count_ = @ + 1],
                        ret |-> TRUE]
          ELSE LET before == getNodeByIndex(L1, 0)
               IN IF before = NULL
                  THEN [L |-> DeleteNode(L1, node), ret |-> FALSE]
                  ELSE [L |-> [L1 EXCEPT
                                 !.heap = insertBefore(@, before, node),
                                 !.count_ = @ + 1],
                        ret |-> TRUE]

\* removeNode that leaves the modification counter as it is.
removeNode_NoCount(L, node) ==
    IF node = NULL
    THEN [L |-> L, ret |-> FALSE]
    ELSE
    LET L1 == IF node = L.last_
              THEN IF getLength(L) = 1
                   THEN [L EXCEPT !.last_ = NULL]
                   ELSE [L EXCEPT !.last_ = L.heap[L.last_].prev]
              ELSE L
    IN [L |-> DeleteNode(L1, node), ret |-> TRUE]

\* removeNode with a modification counter that counts a removal down.
removeNode_CountDown(L, node) ==
    IF node = NULL
    THEN [L |-> L, ret |-> FALSE]
    ELSE
    LET L1 == IF node = L.last_
              THEN IF getLength(L) = 1
                   THEN [L EXCEPT !.last_ = NULL]
                   ELSE [L EXCEPT !.last_ = L.heap[L.last_].prev]
              ELSE L
    IN [L |-> [DeleteNode(L1, node) EXCEPT !.count_ = @ - 1], ret |-> TRUE]

\* removeNode with last_ moved to the successor of a removed last node and
\* not to its predecessor.
removeNode_LastToNext(L, node) ==
    IF node = NULL
    THEN [L |-> L, ret |-> FALSE]
    ELSE
    LET L1 == IF node = L.last_
              THEN IF getLength(L) = 1
                   THEN [L EXCEPT !.last_ = NULL]
                   ELSE [L EXCEPT !.last_ = L.heap[L.last_].next]
              ELSE L
    IN [L |-> [DeleteNode(L1, node) EXCEPT !.count_ = @ + 1], ret |-> TRUE]

\* removeNode without its delete of the node.
removeNode_NoDelete(L, node) ==
    IF node = NULL
    THEN [L |-> L, ret |-> FALSE]
    ELSE
    LET L1 == IF node = L.last_
              THEN IF getLength(L) = 1
                   THEN [L EXCEPT !.last_ = NULL]
                   ELSE [L EXCEPT !.last_ = L.heap[L.last_].prev]
              ELSE L
    IN [L |-> [L1 EXCEPT !.count_ = @ + 1], ret |-> TRUE]

\* removeNode that counts a refused removal as a change.
removeNode_CountsRefusal(L, node) ==
    IF node = NULL
    THEN [L |-> [L EXCEPT !.count_ = @ + 1], ret |-> FALSE]
    ELSE
    LET L1 == IF node = L.last_
              THEN IF getLength(L) = 1
                   THEN [L EXCEPT !.last_ = NULL]
                   ELSE [L EXCEPT !.last_ = L.heap[L.last_].prev]
              ELSE L
    IN [L |-> [DeleteNode(L1, node) EXCEPT !.count_ = @ + 1], ret |-> TRUE]

removeNode(L, node) ==
    IF node = NULL
    THEN [L |-> L, ret |-> FALSE]
    ELSE
    LET L1 == IF node = L.last_
              THEN IF getLength(L) = 1
                   THEN [L EXCEPT !.last_ = NULL]
                   ELSE [L EXCEPT !.last_ = L.heap[L.last_].prev]
              ELSE L
    IN [L |-> [DeleteNode(L1, node) EXCEPT !.count_ = @ + 1], ret |-> TRUE]

\* add without its test of isConstructed().
add_Unchecked(L, element, mem) == addNode(L, getLength(L), element, mem)

add(L, element, mem) ==
    IF L.constructed THEN addNode(L, getLength(L), element, mem)
    ELSE [L |-> L, ret |-> FALSE]

addAt(L, index, element, mem) ==
    IF L.constructed THEN addNode(L, index, element, mem)
    ELSE [L |-> L, ret |-> FALSE]

remove(L, index) ==
    IF L.constructed THEN removeNode(L, getNodeByIndex(L, index))
    ELSE [L |-> L, ret |-> FALSE]

removeFirst(L) == remove(L, 0)

\* removeLast with getLength() as its index.
removeLast_AtLength(L) == remove(L, getLength(L))

removeLast(L) == remove(L, getLength(L) - 1)

removeHead(L) == remove(L, 0)

removeElement(L, element) ==
    IF L.constructed THEN removeNode(L, getNodeByElement(L, element))
    ELSE [L |-> L, ret |-> FALSE]

\* The loop of clear from index i down, n removals done so far: the list
\* it leaves, the removals done, and whether it left through its break.
RECURSIVE ClearLoop(_, _, _)
ClearLoop(L, i, n) ==
    IF i < 0 THEN [L |-> L, n |-> n, broke |-> FALSE]
    ELSE LET r == removeNode(L, getNodeByIndex(L, i))
         IN IF ~r.ret THEN [L |-> L, n |-> n, broke |-> TRUE]
            ELSE ClearLoop(r.L, i - 1, n + 1)

\* clear with its loop started at getLength() instead of getLength() - 1.
clear_FromLength(L) ==
    IF ~L.constructed THEN [L |-> L, n |-> 0, broke |-> FALSE]
    ELSE ClearLoop(L, getLength(L), 0)

clear(L) ==
    IF ~L.constructed THEN [L |-> L, n |-> 0, broke |-> FALSE]
    ELSE ClearLoop(L, getLength(L) - 1, 0)

\* ~AbstractLinkedList: the list the destructor leaves behind.
destructor(L) == clear(L).L

\* setIllegal that assigns nothing.
setIllegal_Ignored(L, ill, value) == ill

\* setIllegal(value): the illegal value afterwards, ill being the one before.
setIllegal(L, ill, value) == IF L.constructed THEN value ELSE ill

get(L, ill, index) ==
    IF ~L.constructed THEN ill
    ELSE LET node == getNodeByIndex(L, index)
         IN IF node # NULL THEN L.heap[node].elem ELSE ill

peek(L, ill) == get(L, ill, 0)

getFirst(L, ill) == get(L, ill, 0)

\* getLast with getLength() as its index.
getLast_AtLength(L, ill) == get(L, ill, getLength(L))

getLast(L, ill) == get(L, ill, getLength(L) - 1)

getIndexOf(L, element) ==
    LET node == getNodeByElement(L, element)
    IN IF node # NULL THEN L.heap[node].index ELSE -1

\* ---------------------------------------------------------------- the buffer
\* A Buffer is its count_, its illegal_, its elements buf_, whether it is
\* constructed, and store: whether getBuffer() gives its array (FALSE for
\* NULL).  What the program holds when array() gave it no Buffer (NULL).
NoBuffer ==
    [live |-> FALSE, constructed |-> FALSE, store |-> FALSE, count_ |-> 0,
     illegal_ |-> 0, buf_ |-> <<>>]

\* new Buffer<T,0,A>(length, illegal): count_ and a copy of illegal are
\* set, and construct() asks the allocator for the array; mem is its
\* answer and junk what the fresh memory holds.
BufferNew(length, illegal, mem, junk) ==
    [live |-> TRUE, constructed |-> mem, store |-> mem, count_ |-> length,
     illegal_ |-> illegal,
     buf_ |-> IF mem THEN [i \in 1..length |-> junk] ELSE <<>>]

\* Buffer<T,L,A>(illegal): the array is a member, so getBuffer() always
\* gives it; obj is whether the Object base is constructed.
BufferStatic(length, illegal, obj, junk) ==
    [live |-> TRUE, constructed |-> obj, store |-> TRUE, count_ |-> length,
     illegal_ |-> illegal, buf_ |-> [i \in 1..length |-> junk]]

\* buf[i] read: the element, or the Buffer's illegal value; below 0 the
\* read is of memory before the array and yields g.
BufferAt(b, i, g) ==
    IF ~b.constructed \/ i >= b.count_ \/ ~b.store
    THEN [ret |-> b.illegal_, ub |-> FALSE]
    ELSE IF i < 0
    THEN [ret |-> g, ub |-> TRUE]
    ELSE [ret |-> b.buf_[i + 1], ub |-> FALSE]

\* buf[i] = v: operator [] yields a reference to the element, or to the
\* Buffer's illegal value, and the assignment writes through it; below 0
\* the write is to memory before the array.
BufferSet(b, i, v) ==
    IF ~b.constructed \/ i >= b.count_ \/ ~b.store
    THEN [b |-> [b EXCEPT !.illegal_ = v], ub |-> FALSE]
    ELSE IF i < 0
    THEN [b |-> b, ub |-> TRUE]
    ELSE [b |-> [b EXCEPT !.buf_[i + 1] = v], ub |-> FALSE]

\* int32 as an integer of IntBits bits: its range, and what a sum leaves
\* when it wraps.
MinInt == -(2 ^ (IntBits - 1))

MaxInt == (2 ^ (IntBits - 1)) - 1

AddInt(a, b) ==
    LET sum == a + b
    IN IF sum > MaxInt THEN sum - (2 ^ IntBits)
       ELSE IF sum < MinInt THEN sum + (2 ^ IntBits)
       ELSE sum

\* fill(value, index, count): the Buffer afterwards, and whether the call
\* overflowed index + count or wrote before the array.
fill(b, value, index, count) ==
    IF ~b.constructed THEN [b |-> b, ub |-> FALSE]
    ELSE IF index >= b.count_ THEN [b |-> b, ub |-> FALSE]
    ELSE LET max == IF AddInt(index, count) <= b.count_
                    THEN AddInt(count, index)
                    ELSE b.count_
         IN [b |-> [b EXCEPT !.buf_ =
                      [k \in 1..b.count_ |->
                          IF index <= k - 1 /\ k - 1 < max
                          THEN value ELSE @[k]]],
             ub |-> \/ index + count # AddInt(index, count)
                    \/ index < 0 /\ index < max]

\* fill(value, count).
fillCount(b, value, count) == fill(b, value, 0, count)

\* fill(value).
fillAll(b, value) == fill(b, value, 0, b.count_)

\* The lesser of two lengths.
Min(a, b) == IF a < b THEN a ELSE b

\* copy(buf), which the assignment operators call: the Buffer afterwards;
\* a source whose getBuffer() is NULL is read through NULL and yields g.
copy(b, src, g) ==
    IF ~b.constructed THEN [b |-> b, ub |-> FALSE]
    ELSE LET size == Min(b.count_, src.count_)
         IN IF size > 0 /\ ~src.store
            THEN [b |-> [b EXCEPT !.buf_ =
                           [k \in 1..b.count_ |->
                               IF k <= size THEN g ELSE @[k]]],
                  ub |-> TRUE]
            ELSE [b |-> [b EXCEPT !.buf_ =
                           [k \in 1..b.count_ |->
                               IF k <= size THEN src.buf_[k] ELSE @[k]]],
                  ub |-> FALSE]

\* The loop of array(): the elements are copied from node on.
RECURSIVE ArrayFill(_, _, _, _, _)
ArrayFill(L, b, node, i, count) ==
    IF i >= count THEN b
    ELSE ArrayFill(L, BufferSet(b, i, L.heap[node].elem).b, L.heap[node].next,
                   i + 1, count)

\* array() with its copy started at last_ instead of the node after it.
array_FromLast(L, ill, no_strict, memObj, memBuf, junk) ==
    IF ~no_strict THEN NoBuffer
    ELSE IF ~L.constructed THEN NoBuffer
    ELSE LET count == getLength(L)
         IN IF count = 0 THEN NoBuffer
            ELSE IF ~memObj THEN NoBuffer
            ELSE LET b == BufferNew(count, ill, memBuf, junk)
                 IN IF ~b.constructed THEN NoBuffer
                    ELSE ArrayFill(L, b, L.last_, 0, count)

\* AbstractLinkedList::array: no_strict is whether the build defines
\* EOOS_NO_STRICT_MISRA_RULES, memObj and memBuf are the allocator's answers
\* for the Buffer object and for its array.
array(L, ill, no_strict, memObj, memBuf, junk) ==
    IF ~no_strict THEN NoBuffer
    ELSE IF ~L.constructed THEN NoBuffer
    ELSE LET count == getLength(L)
         IN IF count = 0 THEN NoBuffer
            ELSE IF ~memObj THEN NoBuffer
            ELSE LET b == BufferNew(count, ill, memBuf, junk)
                 IN IF ~b.constructed THEN NoBuffer
                    ELSE ArrayFill(L, b, L.heap[L.last_].next, 0, count)

\* ---------------------------------------------------------------- the string
\* The blocks the allocator can hand out for strings.
BlockIds == 1..2

\* Context(): no characters buffer.
NoContext == [str |-> NULL, len |-> 0, max |-> 0]

\* The string before the program creates it: no object, no block in use.
NoString ==
    [live |-> FALSE, constructed |-> FALSE, context_ |-> NoContext,
     used |-> {}, chars |-> [b \in BlockIds |-> <<>>]]

\* The characters, and the character strings a caller passes: NULL, or the
\* characters before the terminator.
Chars == 1..MaxChar

NullStr == [null |-> TRUE, chars |-> <<>>]

CStr(s) == [null |-> FALSE, chars |-> s]

CStrings ==
    {NullStr} \cup {CStr(s) : s \in UNION {[1..n -> Chars] : n \in 0..MaxStr}}

\* AbstractBaseString::getLength(str): the characters before the terminator.
StrLen(str) == IF str.null THEN 0 ELSE Len(str.chars)

\* Context::calculateSize: the bytes for len characters and the terminator,
\* aligned to eight.
calculateSize(len) ==
    LET size == len * SizeOfType + SizeOfType
    IN IF size % 8 # 0 THEN (size \div 8) * 8 + 8 ELSE size

\* Context::calculateLength: the characters size bytes hold, less the
\* terminator.
calculateLength(size) ==
    IF SizeOfType = 0 THEN 0
    ELSE LET len == size \div SizeOfType
         IN IF len > 1 THEN len - 1 ELSE 0

\* Context::allocate(length) on context ctx, used being the blocks in use
\* and mem the allocator's answer when it has a block.
Context_allocate(ctx, used, length, mem) ==
    IF ctx.str # NULL
    THEN [ok |-> FALSE, ctx |-> ctx, used |-> used]
    ELSE IF ~mem \/ BlockIds \ used = {}
    THEN [ok |-> FALSE, ctx |-> ctx, used |-> used]
    ELSE LET b == CHOOSE x \in BlockIds \ used :
                      \A y \in BlockIds \ used : x <= y
         IN [ok |-> TRUE,
             ctx |-> [str |-> b, len |-> length,
                      max |-> calculateLength(calculateSize(length))],
             used |-> used \cup {b}]

\* Context::free() that forgets the block it gives up.
Context_free_Leaks(ctx, used) ==
    IF ctx.str # NULL
    THEN [ctx |-> NoContext, used |-> used]
    ELSE [ctx |-> ctx, used |-> used]

\* Context::free().
Context_free(ctx, used) ==
    IF ctx.str # NULL
    THEN [ctx |-> NoContext, used |-> used \ {ctx.str}]
    ELSE [ctx |-> ctx, used |-> used]

isFit(ctx, len) == IF len > ctx.max THEN FALSE ELSE TRUE

\* The characters string S stores: those of its block, none without one.
Stored(S) ==
    IF S.context_.str = NULL THEN <<>> ELSE S.chars[S.context_.str]

\* AbstractBaseString::copy(dst, src) and concatenate(dst, src) on the
\* block of context ctx: nothing is written through a NULL dst.
WriteChars(S, ctx, s) ==
    IF ctx.str = NULL THEN S.chars
    ELSE [S.chars EXCEPT ![ctx.str] = s]

\* AbstractString<Type,0,Alloc>::getLength.
String_getLength(S) == IF S.constructed THEN S.context_.len ELSE 0

\* AbstractString<Type,0,Alloc>::copy(str).
String_copy(S, str, mem) ==
    IF ~S.constructed \/ str.null THEN [S |-> S, ret |-> FALSE]
    ELSE LET len == StrLen(str)
         IN IF ~isFit(S.context_, len)
            THEN LET a == Context_allocate(NoContext, S.used, len, mem)
                 IN IF ~a.ok THEN [S |-> S, ret |-> FALSE]
                    ELSE LET f == Context_free(S.context_, a.used)
                             S1 == [S EXCEPT
                                      !.used = f.used,
                                      !.chars = WriteChars(S, S.context_,
                                                           <<>>),
                                      !.context_ = a.ctx]
                         IN [S |-> [S1 EXCEPT !.chars =
                                       WriteChars(S1, a.ctx, str.chars)],
                             ret |-> TRUE]
            ELSE LET ctx == [S.context_ EXCEPT !.len = len]
                 IN [S |-> [S EXCEPT !.context_ = ctx,
                                     !.chars = WriteChars(S, ctx, str.chars)],
                     ret |-> TRUE]

\* AbstractString<Type,0,Alloc>::concatenate(str).
String_concatenate(S, str, mem) ==
    IF ~S.constructed \/ S.context_.str = NULL \/ str.null
    THEN [S |-> S, ret |-> FALSE]
    ELSE LET len == StrLen(str) + S.context_.len
             all == Stored(S) \o str.chars
         IN IF ~isFit(S.context_, len)
            THEN LET a == Context_allocate(NoContext, S.used, len, mem)
                 IN IF ~a.ok THEN [S |-> S, ret |-> FALSE]
                    ELSE LET f == Context_free(S.context_, a.used)
                             S1 == [S EXCEPT
                                      !.used = f.used,
                                      !.chars = WriteChars(S, S.context_,
                                                           <<>>),
                                      !.context_ = a.ctx]
                         IN [S |-> [S1 EXCEPT !.chars =
                                       WriteChars(S1, a.ctx, all)],
                             ret |-> TRUE]
            ELSE LET ctx == [S.context_ EXCEPT !.len = len]
                 IN [S |-> [S EXCEPT !.context_ = ctx,
                                     !.chars = WriteChars(S, ctx, all)],
                     ret |-> TRUE]

\* AbstractBaseString::MINIMUM_POSSIBLE_VALUE_OF_INT32.
MINIMUM_POSSIBLE_VALUE_OF_INT32 == (-2147483647) - 1

\* AbstractString<Type,0,Alloc>::compare(str).
String_compare(S, str) ==
    IF ~S.constructed \/ S.context_.str = NULL \/ str.null
    THEN MINIMUM_POSSIBLE_VALUE_OF_INT32
    ELSE LET res == S.context_.len - StrLen(str)
             differ == {i \in 1..S.context_.len :
                           Stored(S)[i] # str.chars[i]}
         IN IF res # 0 THEN res
            ELSE IF differ = {} THEN res
            ELSE LET i == CHOOSE x \in differ : \A y \in differ : x <= y
                 IN Stored(S)[i] - str.chars[i]

\* ~AbstractString<Type,0,Alloc>: context_.free().
String_destructor(S) ==
    LET f == Context_free(S.context_, S.used)
    IN [S EXCEPT !.context_ = f.ctx, !.used = f.used,
                 !.chars = WriteChars(S, S.context_, <<>>)]

\* ------------------------------------------------------------ the iterator
\* The slot of an iterator that does not exist.
NoIterator ==
    [live |-> FALSE, self |-> 0, curs_ |-> NULL, rindex_ |-> ILLEGAL_INDEX]

\* What reads through a pointer to no node of the list may yield: some
\* pointer, some index, some element.
Garbage == [ptr : NodeIds \cup {NULL}, idx : 0..MaxNodes, elem : Vals]

NoGarbage == [ptr |-> NULL, idx |-> 0, elem |-> 0]

\* The garbage of a call that reads pointers alone, indices alone, or both.
GarbagePtr == {g \in Garbage : g.idx = 0 /\ g.elem = 0}

GarbageIdx == {g \in Garbage : g.ptr = NULL /\ g.elem = 0}

GarbagePtrIdx == {g \in Garbage : g.elem = 0}

\* p points to a node the list holds.
Valid(L, p) == p \in L.alloc

\* node->getNext(), getPrevious(), getIndex(), getElement() through p.
NextOf(L, p, g) == IF Valid(L, p) THEN L.heap[p].next ELSE g.ptr

PrevOf(L, p, g) == IF Valid(L, p) THEN L.heap[p].prev ELSE g.ptr

IndexOf(L, p, g) == IF Valid(L, p) THEN L.heap[p].index ELSE g.idx

ElemOf(L, p, g) == IF Valid(L, p) THEN L.heap[p].elem ELSE g.elem

\* Iterator::construct, on the members the constructor has initialised.
\* construct that places the cursor on the head whatever the index.
construct_AtHead(L, index) ==
    LET it == [live |-> TRUE, self |-> L.count_, curs_ |-> NULL,
               rindex_ |-> ILLEGAL_INDEX]
    IN IF ~L.constructed THEN [it |-> it, ret |-> FALSE]
       ELSE IF isIndexOutOfBounds(L, index) THEN [it |-> it, ret |-> FALSE]
       ELSE [it |-> [it EXCEPT !.curs_ = getNodeByIndex(L, 0)],
             ret |-> TRUE]

construct(L, index) ==
    LET it == [live |-> TRUE, self |-> L.count_, curs_ |-> NULL,
               rindex_ |-> ILLEGAL_INDEX]
    IN IF ~L.constructed THEN [it |-> it, ret |-> FALSE]
       ELSE IF isIndexOutOfBounds(L, index) THEN [it |-> it, ret |-> FALSE]
       ELSE [it |-> [it EXCEPT !.curs_ = getNodeByIndex(L, index)],
             ret |-> TRUE]

\* LinkedList::getListIterator: mem is the allocator's answer for the
\* iterator object; the result is the iterator, or NoIterator for NULL.
getListIterator(L, index, mem) ==
    IF ~L.constructed THEN NoIterator
    ELSE IF ~mem THEN NoIterator
    ELSE LET c == construct(L, index)
         IN IF c.ret THEN c.it ELSE NoIterator

\* hasNext without its comparison of the modification counters.
hasNext_NoCounterCheck(L, it) ==
    IF it.curs_ = NULL THEN FALSE
    ELSE TRUE

hasNext(L, it) ==
    IF L.count_ # it.self THEN FALSE
    ELSE IF it.curs_ = NULL THEN FALSE
    ELSE TRUE

\* getNext with a test of the cursor alone in place of hasNext().
getNext_IgnoresCounter(L, ill, it, g) ==
    IF it.curs_ = NULL
    THEN [it |-> it, ret |-> ill, ub |-> FALSE]
    ELSE LET node == it.curs_
         IN [it |-> [it EXCEPT
                       !.curs_ = IF node # L.last_ THEN NextOf(L, node, g)
                                 ELSE NULL,
                       !.rindex_ = IndexOf(L, node, g)],
             ret |-> ElemOf(L, node, g),
             ub |-> ~Valid(L, node)]

\* getNext with a cursor that follows next from the last node as from any
\* other (it takes the arguments of getNext).
getNext_PastLast(L, ill, it, g) ==
    IF ~hasNext(L, it)
    THEN [it |-> it, ret |-> ill, ub |-> FALSE]
    ELSE LET node == it.curs_
         IN [it |-> [it EXCEPT
                       !.curs_ = NextOf(L, node, g),
                       !.rindex_ = IndexOf(L, node, g)],
             ret |-> ElemOf(L, node, g),
             ub |-> ~Valid(L, node)]

\* The iterator operations below yield, with their result, ub: whether the
\* call read through a pointer to no node (the read then yielded g).
getNext(L, ill, it, g) ==
    IF ~hasNext(L, it)
    THEN [it |-> it, ret |-> ill, ub |-> FALSE]
    ELSE LET node == it.curs_
         IN [it |-> [it EXCEPT
                       !.curs_ = IF node # L.last_ THEN NextOf(L, node, g)
                                 ELSE NULL,
                       !.rindex_ = IndexOf(L, node, g)],
             ret |-> ElemOf(L, node, g),
             ub |-> ~Valid(L, node)]

getNextIndex(L, it, g) ==
    IF hasNext(L, it)
    THEN [ret |-> IndexOf(L, it.curs_, g), ub |-> ~Valid(L, it.curs_)]
    ELSE [ret |-> getLength(L), ub |-> FALSE]

hasPrevious(L, it, g) ==
    IF L.count_ # it.self THEN [ret |-> FALSE, ub |-> FALSE]
    ELSE IF L.last_ = NULL THEN [ret |-> FALSE, ub |-> FALSE]
    ELSE IF PrevOf(L, it.curs_, g) = L.last_
    THEN [ret |-> FALSE, ub |-> ~Valid(L, it.curs_)]
    ELSE [ret |-> TRUE, ub |-> ~Valid(L, it.curs_)]

getPrevious(L, ill, it, g) ==
    LET hp == hasPrevious(L, it, g)
    IN IF ~hp.ret
       THEN [it |-> it, ret |-> ill, ub |-> hp.ub]
       ELSE LET curs == IF it.curs_ = NULL THEN L.last_
                        ELSE PrevOf(L, it.curs_, g)
            IN [it |-> [it EXCEPT !.curs_ = curs,
                                  !.rindex_ = IndexOf(L, curs, g)],
                ret |-> ElemOf(L, curs, g),
                ub |-> hp.ub \/ ~Valid(L, curs)]

getPreviousIndex(L, it, g) ==
    LET hp == hasPrevious(L, it, g)
    IN IF ~hp.ret
       THEN [ret |-> -1, ub |-> hp.ub]
       ELSE IF it.curs_ = NULL
       THEN [ret |-> IndexOf(L, L.last_, g), ub |-> hp.ub]
       ELSE LET pv == PrevOf(L, it.curs_, g)
            IN [ret |-> IndexOf(L, pv, g), ub |-> hp.ub \/ ~Valid(L, pv)]

\* Iterator::add through the list's add(element): at the end, wherever the
\* cursor is.
itAdd_Appends(L, it, element, mem, g) ==
    IF L.count_ # it.self
    THEN [L |-> L, it |-> it, ret |-> FALSE, ub |-> FALSE]
    ELSE LET r == add(L, element, mem)
         IN IF ~r.ret
            THEN [L |-> L, it |-> it, ret |-> FALSE, ub |-> FALSE]
            ELSE [L |-> r.L,
                  it |-> [it EXCEPT !.self = @ + 1,
                                    !.rindex_ = ILLEGAL_INDEX],
                  ret |-> TRUE,
                  ub |-> FALSE]

\* Iterator::add that leaves the iterator's counter copy as it is.
itAdd_NoSelfIncrement(L, it, element, mem, g) ==
    IF L.count_ # it.self
    THEN [L |-> L, it |-> it, ret |-> FALSE, ub |-> FALSE]
    ELSE LET ni == getNextIndex(L, it, g)
             r == addAt(L, ni.ret, element, mem)
         IN IF ~r.ret
            THEN [L |-> L, it |-> it, ret |-> FALSE, ub |-> ni.ub]
            ELSE [L |-> r.L,
                  it |-> [it EXCEPT !.rindex_ = ILLEGAL_INDEX],
                  ret |-> TRUE,
                  ub |-> ni.ub]

\* Iterator::add without its comparison of the modification counters.
itAdd_NoCounterCheck(L, it, element, mem, g) ==
    LET ni == getNextIndex(L, it, g)
        r == addAt(L, ni.ret, element, mem)
    IN IF ~r.ret
       THEN [L |-> L, it |-> it, ret |-> FALSE, ub |-> ni.ub]
       ELSE [L |-> r.L,
             it |-> [it EXCEPT !.self = @ + 1,
                               !.rindex_ = ILLEGAL_INDEX],
             ret |-> TRUE,
             ub |-> ni.ub]

\* Iterator::add, as itAdd: the list's add at the cursor's index.
itAdd(L, it, element, mem, g) ==
    IF L.count_ # it.self
    THEN [L |-> L, it |-> it, ret |-> FALSE, ub |-> FALSE]
    ELSE LET ni == getNextIndex(L, it, g)
             r == addAt(L, ni.ret, element, mem)
         IN IF ~r.ret
            THEN [L |-> L, it |-> it, ret |-> FALSE, ub |-> ni.ub]
            ELSE [L |-> r.L,
                  it |-> [it EXCEPT !.self = @ + 1,
                                    !.rindex_ = ILLEGAL_INDEX],
                  ret |-> TRUE,
                  ub |-> ni.ub]

\* Iterator::remove that leaves the last-returned index as it is.
itRemove_KeepsIndex(L, it, g) ==
    IF L.count_ # it.self
    THEN [L |-> L, it |-> it, ret |-> FALSE, ub |-> FALSE]
    ELSE IF it.rindex_ = ILLEGAL_INDEX
    THEN [L |-> L, it |-> it, ret |-> FALSE, ub |-> FALSE]
    ELSE
    LET curs == IF IndexOf(L, it.curs_, g) # it.rindex_ THEN it.curs_
                ELSE IF it.curs_ # L.last_ THEN NextOf(L, it.curs_, g)
                ELSE NULL
        r == remove(L, it.rindex_)
    IN IF ~r.ret
       THEN [L |-> L, it |-> it, ret |-> FALSE, ub |-> ~Valid(L, it.curs_)]
       ELSE [L |-> r.L,
             it |-> [it EXCEPT !.self = @ + 1,
                               !.curs_ = curs],
             ret |-> TRUE,
             ub |-> ~Valid(L, it.curs_)]

\* Iterator::remove, as itRemove.
itRemove(L, it, g) ==
    IF L.count_ # it.self
    THEN [L |-> L, it |-> it, ret |-> FALSE, ub |-> FALSE]
    ELSE IF it.rindex_ = ILLEGAL_INDEX
    THEN [L |-> L, it |-> it, ret |-> FALSE, ub |-> FALSE]
    ELSE
    LET curs == IF IndexOf(L, it.curs_, g) # it.rindex_ THEN it.curs_
                ELSE IF it.curs_ # L.last_ THEN NextOf(L, it.curs_, g)
                ELSE NULL
        r == remove(L, it.rindex_)
    IN IF ~r.ret
       THEN [L |-> L, it |-> it, ret |-> FALSE, ub |-> ~Valid(L, it.curs_)]
       ELSE [L |-> r.L,
             it |-> [it EXCEPT !.self = @ + 1,
                               !.rindex_ = ILLEGAL_INDEX,
                               !.curs_ = curs],
             ret |-> TRUE,
             ub |-> ~Valid(L, it.curs_)]

\* ---------------------------------------------------------------- history
\* The record of a call: the operation, the iterator it was made on, its
\* arguments, its result, and ub: whether it read through a pointer to no
\* node.  A call that changes nothing (a read, a failed add or remove)
\* leaves no record: what it returns is the value of its operator.
Call(op, it, index, element, retB, retV, ub) ==
    [op |-> op, it |-> it, index |-> index, element |-> element,
     retB |-> retB, retV |-> retV, ub |-> ub]

SetList(L) ==
    /\ heap' = L.heap
    /\ alloc' = L.alloc
    /\ last_' = L.last_
    /\ count_' = L.count_
    /\ constructed' = L.constructed

\* A call of an add on the list: r is what the operation yields.
AddCall(op, index, element, r) ==
    /\ ~fault
    /\ r.L.count_ <= MaxCount
    /\ IF r.ret
       THEN /\ SetList(r.L)
            /\ call' = Call(op, 0, index, element, TRUE, 0, FALSE)
            /\ adds' = adds + 1
            /\ UNCHANGED <<illegal_, its, fault, removes, buffer, changes, string>>
       ELSE UNCHANGED vars

\* A call of a remove on the list.
RemoveCall(op, index, element, r) ==
    /\ ~fault
    /\ r.L.count_ <= MaxCount
    /\ IF r.ret
       THEN /\ SetList(r.L)
            /\ call' = Call(op, 0, index, element, TRUE, 0, FALSE)
            /\ removes' = removes + 1
            /\ UNCHANGED <<illegal_, its, fault, adds, buffer, changes, string>>
       ELSE UNCHANGED vars

\* A call that reads the list and changes nothing; v is what it returns.
ReadCall(v) ==
    /\ ~fault
    /\ v = v
    /\ UNCHANGED vars

\* ------------------------------------------------------------------ actions
\* The state after the list's constructor, in a program that holds at most n
\* iterators at a time.
InitWith(n) ==
    /\ heap = [i \in NodeIds |-> FreeNode]
    /\ alloc = {}
    /\ last_ = NULL
    /\ count_ = 0
    /\ illegal_ \in Vals
    /\ constructed \in BOOLEAN
    /\ its = [i \in 1..n |-> NoIterator]
    /\ fault = FALSE
    /\ call = Call("new", 0, 0, 0, constructed, 0, FALSE)
    /\ adds = 0
    /\ removes = 0
    /\ buffer = NoBuffer
    /\ changes = 0
    /\ string = NoString

Init == InitWith(NumIters)

Add ==
    \E element \in Vals, mem \in BOOLEAN :
        AddCall("add", 0, element, add(ListState, element, mem))

AddAt ==
    \E index \in Indices, element \in Vals, mem \in BOOLEAN :
        AddCall("addAt", index, element,
                addAt(ListState, index, element, mem))

Clear ==
    LET r == clear(ListState)
    IN /\ ~fault
       /\ r.L.count_ <= MaxCount
       /\ IF r.n > 0
          THEN /\ SetList(r.L)
               /\ call' = Call("clear", 0, 0, 0, TRUE, r.n, FALSE)
               /\ removes' = removes + r.n
               /\ UNCHANGED <<illegal_, its, fault, adds, buffer, changes, string>>
          ELSE UNCHANGED vars

RemoveFirst ==
    RemoveCall("removeFirst", 0, 0, removeFirst(ListState))

RemoveLast ==
    RemoveCall("removeLast", 0, 0, removeLast(ListState))

RemoveHead ==
    RemoveCall("remove", 0, 0, removeHead(ListState))

RemoveAt ==
    \E index \in Indices :
        RemoveCall("removeAt", index, 0, remove(ListState, index))

RemoveElement ==
    \E element \in Vals :
        RemoveCall("removeElement", 0, element,
                   removeElement(ListState, element))

Get ==
    \E index \in Indices : ReadCall(get(ListState, illegal_, index))

GetLength ==
    ReadCall(getLength(ListState))

GetIndexOf ==
    \E element \in Vals : ReadCall(getIndexOf(ListState, element))

IsIndex ==
    \E index \in Indices : ReadCall(isIndex(ListState, index))

SetIllegal ==
    \E value \in Vals :
        /\ ~fault
        /\ IF setIllegal(ListState, illegal_, value) # illegal_
           THEN /\ illegal_' = setIllegal(ListState, illegal_, value)
                /\ call' = Call("setIllegal", 0, 0, value, TRUE, 0, FALSE)
                /\ UNCHANGED <<heap, alloc, last_, count_, constructed, its,
                               fault, adds, removes, buffer, changes, string>>
           ELSE UNCHANGED vars

\* The lowest iterator slot not in use; NULL when all are.
FreeIter ==
    IF \E i \in IterIds : ~its[i].live
    THEN CHOOSE i \in IterIds :
             ~its[i].live /\ \A j \in IterIds : ~its[j].live => i <= j
    ELSE NULL

NewIterator(op, index, mem) ==
    LET it == getListIterator(ListState, index, mem)
        i == FreeIter
    IN /\ ~fault
       /\ i # NULL
       /\ IF it.live
          THEN /\ its' = [its EXCEPT ![i] = it]
               /\ call' = Call(op, i, index, 0, TRUE, 0, FALSE)
               /\ UNCHANGED <<heap, alloc, last_, count_, illegal_,
                              constructed, fault, adds, removes, buffer,
                              changes, string>>
          ELSE UNCHANGED vars

GetListIterator ==
    \E index \in Indices, mem \in BOOLEAN :
        NewIterator("getListIterator", index, mem)

GetIterator ==
    \E mem \in BOOLEAN : NewIterator("getIterator", 0, mem)

\* delete of an iterator by its owner.
DeleteIterator ==
    \E i \in IterIds :
        /\ ~fault
        /\ its[i].live
        /\ its' = [its EXCEPT ![i] = NoIterator]
        /\ call' = Call("deleteIterator", i, 0, 0, TRUE, 0, FALSE)
        /\ UNCHANGED <<heap, alloc, last_, count_, illegal_, constructed,
                       fault, adds, removes, buffer, changes, string>>

\* A read through a pointer to no node either stops the program or yields
\* some value g; a call that makes no such read draws no g.
Reads(ub, g) == ub \/ g = NoGarbage

\* The values a call on iterator it may read: only a cursor that points to
\* no node of the list makes a read yield garbage.
GarbageOf(it, G) ==
    IF Valid(ListState, it.curs_) THEN {NoGarbage} ELSE G

\* The program stops in call op of iterator i, on a read through a pointer
\* to no node.
Crash(op, i) ==
    /\ fault' = TRUE
    /\ call' = Call(op, i, 0, 0, FALSE, 0, TRUE)
    /\ UNCHANGED <<heap, alloc, last_, count_, illegal_, constructed, its,
                   adds, removes, buffer, changes, string>>

\* A call on iterator i that leaves the list alone: it is the iterator
\* after the call, retV what the call returns.
IterCall(op, i, it, retV, ub) ==
    /\ ~fault
    /\ \/ IF it # its[i]
          THEN /\ its' = [its EXCEPT ![i] = it]
               /\ call' = Call(op, i, 0, 0, TRUE, retV, ub)
               /\ UNCHANGED <<heap, alloc, last_, count_, illegal_,
                              constructed, fault, adds, removes, buffer,
                              changes, string>>
          ELSE UNCHANGED vars
       \/ ub /\ Crash(op, i)

\* A call on iterator i that may change the list: r is what it yields,
\* da and dr the list's adds and removes it makes.
IterListCall(op, i, element, r, da, dr) ==
    /\ ~fault
    /\ r.L.count_ <= MaxCount
    /\ \/ IF r.ret
          THEN /\ SetList(r.L)
               /\ its' = [its EXCEPT ![i] = r.it]
               /\ call' = Call(op, i, 0, element, TRUE, 0, r.ub)
               /\ adds' = adds + da
               /\ removes' = removes + dr
               /\ UNCHANGED <<illegal_, fault, buffer, changes, string>>
          ELSE UNCHANGED vars
       \/ r.ub /\ Crash(op, i)

ItHasNext ==
    \E i \in IterIds :
        /\ its[i].live
        /\ ReadCall(hasNext(ListState, its[i]))

ItGetNext ==
    \E i \in IterIds : \E g \in GarbageOf(its[i], Garbage) :
        LET r == getNext(ListState, illegal_, its[i], g)
        IN /\ its[i].live
           /\ Reads(r.ub, g)
           /\ IterCall("it.getNext", i, r.it, r.ret, r.ub)

ItGetNextIndex ==
    \E i \in IterIds : \E g \in GarbageOf(its[i], GarbageIdx) :
        LET r == getNextIndex(ListState, its[i], g)
        IN /\ its[i].live
           /\ Reads(r.ub, g)
           /\ IterCall("it.getNextIndex", i, its[i], r.ret, r.ub)

ItHasPrevious ==
    \E i \in IterIds : \E g \in GarbageOf(its[i], GarbagePtr) :
        LET r == hasPrevious(ListState, its[i], g)
        IN /\ its[i].live
           /\ Reads(r.ub, g)
           /\ IterCall("it.hasPrevious", i, its[i], 0, r.ub)

ItGetPrevious ==
    \E i \in IterIds : \E g \in GarbageOf(its[i], Garbage) :
        LET r == getPrevious(ListState, illegal_, its[i], g)
        IN /\ its[i].live
           /\ Reads(r.ub, g)
           /\ IterCall("it.getPrevious", i, r.it, r.ret, r.ub)

ItGetPreviousIndex ==
    \E i \in IterIds : \E g \in GarbageOf(its[i], GarbagePtrIdx) :
        LET r == getPreviousIndex(ListState, its[i], g)
        IN /\ its[i].live
           /\ Reads(r.ub, g)
           /\ IterCall("it.getPreviousIndex", i, its[i], r.ret, r.ub)

ItAdd ==
    \E i \in IterIds, element \in Vals, mem \in BOOLEAN :
      \E g \in GarbageOf(its[i], GarbageIdx) :
        LET r == itAdd(ListState, its[i], element, mem, g)
        IN /\ its[i].live
           /\ Reads(r.ub, g)
           /\ IterListCall("it.add", i, element, r, 1, 0)

ItRemove ==
    \E i \in IterIds : \E g \in GarbageOf(its[i], GarbagePtrIdx) :
        LET r == itRemove(ListState, its[i], g)
        IN /\ its[i].live
           /\ Reads(r.ub, g)
           /\ IterListCall("it.remove", i, 0, r, 0, 1)

\* Iterator::setIllegal: list_.setIllegal(value).
ItSetIllegal ==
    \E i \in IterIds, value \in Vals :
        /\ ~fault
        /\ its[i].live
        /\ IF setIllegal(ListState, illegal_, value) # illegal_
           THEN /\ illegal_' = setIllegal(ListState, illegal_, value)
                /\ call' = Call("it.setIllegal", i, 0, value, TRUE, 0, FALSE)
                /\ UNCHANGED <<heap, alloc, last_, count_, constructed, its,
                               fault, adds, removes, buffer, changes, string>>
           ELSE UNCHANGED vars

\* array() called while the program holds no Buffer.
Array ==
    \E no_strict \in BOOLEAN, memObj \in BOOLEAN, memBuf \in BOOLEAN,
       junk \in Vals :
        LET b == array(ListState, illegal_, no_strict, memObj, memBuf, junk)
        IN /\ ~fault
           /\ ~buffer.live
           /\ IF b.live
              THEN /\ buffer' = b
                   /\ call' = Call("array", 0, 0, 0, TRUE, b.count_, FALSE)
                   /\ UNCHANGED <<heap, alloc, last_, count_, illegal_,
                                  constructed, its, fault, adds, removes,
                                  changes, string>>
              ELSE UNCHANGED vars

\* delete of the Buffer by the program, its owner.
DeleteArray ==
    /\ ~fault
    /\ buffer.live
    /\ buffer' = NoBuffer
    /\ call' = Call("delete array", 0, 0, 0, TRUE, 0, FALSE)
    /\ UNCHANGED <<heap, alloc, last_, count_, illegal_, constructed, its,
                   fault, adds, removes, changes, string>>

\* ------------------------------------------------- a program with a Buffer
\* The indices and counts the program passes to a Buffer.
BufIdx == (-2)..(MaxLen + 1)

FillArgs == BufIdx \cup {MaxInt}

\* The Buffers of up to MaxLen elements: static or dynamic, constructed or
\* not, with or without an array.
Buffers ==
    UNION {
        {[live |-> TRUE, constructed |-> c, store |-> TRUE, count_ |-> n,
          illegal_ |-> ill, buf_ |-> e] :
            c \in BOOLEAN, ill \in Vals, e \in [1..n -> Vals]}
        \cup
        {BufferNew(n, ill, FALSE, 0) : ill \in Vals}
        : n \in 0..MaxLen}

\* The program holds a Buffer it has just created, static or dynamic.
InitBuffer ==
    /\ InitWith(NumIters)
    /\ constructed
    /\ illegal_ = 0

\* A call on the Buffer: r is what it yields; a call that went outside the
\* array may also stop the program.
BufCall(op, index, element, r) ==
    /\ ~fault
    /\ buffer.live
    /\ \/ IF r.b # buffer
          THEN /\ buffer' = r.b
               /\ call' = Call(op, 0, index, element, TRUE, 0, r.ub)
               /\ UNCHANGED <<heap, alloc, last_, count_, illegal_,
                              constructed, its, fault, adds, removes,
                              changes, string>>
          ELSE UNCHANGED vars
       \/ /\ r.ub
          /\ fault' = TRUE
          /\ call' = Call(op, 0, index, element, FALSE, 0, TRUE)
          /\ UNCHANGED <<heap, alloc, last_, count_, illegal_, constructed,
                         its, adds, removes, buffer, changes, string>>

\* The program creates its Buffer.
BufCreate ==
    \E n \in 0..MaxLen, ill \in Vals, ok \in BOOLEAN, junk \in Vals :
        /\ ~fault
        /\ ~buffer.live
        /\ buffer' \in {BufferNew(n, ill, ok, junk),
                        BufferStatic(n, ill, ok, junk)}
        /\ call' = Call("Buffer", 0, n, ill, ok, 0, FALSE)
        /\ UNCHANGED <<heap, alloc, last_, count_, illegal_, constructed,
                       its, fault, adds, removes, changes, string>>

BufFill ==
    \E value \in Vals :
        BufCall("fill", 0, value, fillAll(buffer, value))

BufFillCount ==
    \E value \in Vals, count \in FillArgs :
        BufCall("fillCount", count, value, fillCount(buffer, value, count))

BufFillRange ==
    \E value \in Vals, index \in FillArgs, count \in FillArgs :
        BufCall("fillRange", index, value, fill(buffer, value, index, count))

BufSet ==
    \E i \in BufIdx, value \in Vals :
        BufCall("set", i, value, BufferSet(buffer, i, value))

BufGet ==
    \E i \in BufIdx, g \in Vals :
        BufCall("get", i, 0, [b |-> buffer, ub |-> BufferAt(buffer, i, g).ub])

BufAssign ==
    \E src \in Buffers, g \in Vals :
        BufCall("assign", src.count_, 0, copy(buffer, src, g))

Next ==
    \/ Add
    \/ AddAt
    \/ Clear
    \/ RemoveFirst
    \/ RemoveLast
    \/ RemoveHead
    \/ RemoveAt
    \/ RemoveElement
    \/ Get
    \/ GetLength
    \/ GetIndexOf
    \/ IsIndex
    \/ SetIllegal
    \/ GetListIterator
    \/ GetIterator
    \/ DeleteIterator
    \/ ItHasNext
    \/ ItGetNext
    \/ ItGetNextIndex
    \/ ItHasPrevious
    \/ ItGetPrevious
    \/ ItGetPreviousIndex
    \/ ItAdd
    \/ ItRemove

Spec == Init /\ [][Next]_vars

\* A program that holds one iterator more, on a constructed list: the call
\* that fills the list, and the calls of the iterators that move them
\* forward or change the list.
InitIters == InitWith(NumIters + 1) /\ constructed /\ illegal_ = 0

NextIters ==
    \/ Add
    \/ GetListIterator
    \/ ItGetNext
    \/ ItAdd
    \/ ItRemove

SpecIters == InitIters /\ [][NextIters]_vars

\* ------------------------------------------------- the list as a sequence
ElemAt(h, node) == IF node = NULL THEN -1 ELSE h[node].elem

\* The logical sequence of list L: the elements of the ring of last_, read
\* through next from the node after last_.
Elements(L) ==
    IF L.last_ = NULL THEN <<>>
    ELSE LET n == Cardinality(Ring(L.heap, L.last_))
             head == L.heap[L.last_].next
         IN [i \in 1..n |-> ElemAt(L.heap, NodeStep(L.heap, head, i - 1))]

\* Sequence s with e put at position i, and with position i taken out
\* (positions count from 0).
InsertAt(s, i, e) == SubSeq(s, 1, i) \o <<e>> \o SubSeq(s, i + 1, Len(s))

DeleteAt(s, i) == SubSeq(s, 1, i) \o SubSeq(s, i + 2, Len(s))

\* The least position of v in s, counting from 0; -1 when v is not in s.
FirstPos(s, v) ==
    IF \E i \in 1..Len(s) : s[i] = v
    THEN (CHOOSE i \in 1..Len(s) : s[i] = v /\ \A j \in 1..(i - 1) : s[j] # v)
         - 1
    ELSE -1

\* The direct calls on list L that change its structure and return true (clear:
\* that remove an element), as the lists they leave.
DirectChanges(L) ==
    {r.L : r \in {x \in
        {add(L, e, m) : e \in Vals, m \in BOOLEAN}
        \cup {addAt(L, i, e, m) : i \in Indices, e \in Vals, m \in BOOLEAN}
        \cup {remove(L, i) : i \in Indices}
        \cup {removeElement(L, e) : e \in Vals}
        \cup {removeFirst(L), removeLast(L), removeHead(L)} : x.ret}}
    \cup (IF clear(L).n > 0 THEN {clear(L).L} ELSE {})

\* A traversal: getNext for as long as hasNext holds, at most fuel times.
\* vals are the elements returned, it the iterator left.
RECURSIVE Traverse(_, _, _, _)
Traverse(L, ill, it, fuel) ==
    IF fuel = 0 \/ ~hasNext(L, it)
    THEN [vals |-> <<>>, it |-> it, ub |-> FALSE]
    ELSE LET r == getNext(L, ill, it, NoGarbage)
             t == Traverse(L, ill, r.it, fuel - 1)
         IN [vals |-> <<r.ret>> \o t.vals, it |-> t.it, ub |-> r.ub \/ t.ub]

\* A program that takes snapshots of the list with array() between the
\* calls that change the list.
NextArray ==
    \/ Add
    \/ AddAt
    \/ RemoveAt
    \/ Clear
    \/ SetIllegal
    \/ Array
    \/ DeleteArray

SpecArray == Init /\ [][NextArray]_vars

\* A program that reads the list, takes snapshots of it and moves an
\* iterator between the calls that change the list.
NextFrame ==
    \/ Add
    \/ RemoveAt
    \/ RemoveElement
    \/ Clear
    \/ Get
    \/ GetLength
    \/ GetIndexOf
    \/ IsIndex
    \/ SetIllegal
    \/ Array
    \/ DeleteArray
    \/ GetListIterator
    \/ GetIterator
    \/ ItHasNext
    \/ ItGetNext
    \/ ItGetNextIndex
    \/ ItHasPrevious
    \/ ItGetPrevious
    \/ ItGetPreviousIndex
    \/ ItSetIllegal

SpecFrame == Init /\ [][NextFrame]_vars

\* count_ as an integer of CounterBits bits: what an increment leaves when
\* it wraps.
Wrap(n) == n % (2 ^ CounterBits)

\* The calls a program with a wrapping counter is followed through.
MaxHistory == (2 ^ CounterBits) + 2

\* A change the program makes on the list itself, count_ being of
\* CounterBits bits.
WrapCall(op, element, r, da, dr) ==
    /\ ~fault
    /\ adds + removes < MaxHistory
    /\ IF r.ret
       THEN /\ SetList([r.L EXCEPT !.count_ = Wrap(@)])
            /\ call' = Call(op, 0, 0, element, TRUE, 0, FALSE)
            /\ adds' = adds + da
            /\ removes' = removes + dr
            /\ changes' = changes + 1
            /\ UNCHANGED <<illegal_, its, fault, buffer, string>>
       ELSE UNCHANGED vars

AddWrap ==
    \E element \in Vals, mem \in BOOLEAN :
        WrapCall("add", element, add(ListState, element, mem), 1, 0)

RemoveFirstWrap ==
    WrapCall("removeFirst", 0, removeFirst(ListState), 0, 1)

\* getListIterator(index), from which the list's own changes are counted.
GetListIteratorWrap ==
    \E index \in Indices, mem \in BOOLEAN :
        LET it == getListIterator(ListState, index, mem)
            i == FreeIter
        IN /\ ~fault
           /\ i # NULL
           /\ IF it.live
              THEN /\ its' = [its EXCEPT ![i] = it]
                   /\ call' = Call("getListIterator", i, index, 0, TRUE, 0,
                                   FALSE)
                   /\ changes' = 0
                   /\ UNCHANGED <<heap, alloc, last_, count_, illegal_,
                                  constructed, fault, adds, removes, buffer,
                                  string>>
              ELSE UNCHANGED vars

InitWrap == Init /\ constructed

NextWrap ==
    \/ AddWrap
    \/ RemoveFirstWrap
    \/ GetListIteratorWrap
    \/ DeleteIterator
    \/ ItHasNext
    \/ ItGetNext

SpecWrap == InitWrap /\ [][NextWrap]_vars

NextBuffer ==
    \/ BufCreate
    \/ BufFill
    \/ BufFillCount
    \/ BufFillRange
    \/ BufSet
    \/ BufGet
    \/ BufAssign

SpecBuffer == InitBuffer /\ [][NextBuffer]_vars

\* ------------------------------------------------- a program with a string
InitString == InitWith(NumIters) /\ constructed /\ illegal_ = 0

\* A call on the program's string that leaves string r.S and returns r.ret.
StrCall(op, str, r) ==
    /\ ~fault
    /\ string.live
    /\ string' = r.S
    /\ call' = Call(op, 0, StrLen(str), 0, r.ret, 0, FALSE)
    /\ UNCHANGED <<heap, alloc, last_, count_, illegal_, constructed, its,
                   fault, adds, removes, buffer, changes>>

\* The program creates its string.
StrCreate ==
    \E ok \in BOOLEAN :
        /\ ~fault
        /\ ~string.live
        /\ string' = [NoString EXCEPT !.live = TRUE, !.constructed = ok]
        /\ call' = Call("String", 0, 0, 0, ok, 0, FALSE)
        /\ UNCHANGED <<heap, alloc, last_, count_, illegal_, constructed,
                       its, fault, adds, removes, buffer, changes>>

StrCopy ==
    \E str \in CStrings, mem \in BOOLEAN :
        StrCall("copy", str, String_copy(string, str, mem))

StrConcatenate ==
    \E str \in CStrings, mem \in BOOLEAN :
        /\ String_getLength(string) + StrLen(str) <= MaxStored
        /\ StrCall("concatenate", str, String_concatenate(string, str, mem))

StrCompare ==
    \E str \in CStrings :
        /\ ~fault
        /\ string.live
        /\ call' = Call("compare", 0, StrLen(str), 0, TRUE,
                        String_compare(string, str), FALSE)
        /\ UNCHANGED <<heap, alloc, last_, count_, illegal_, constructed,
                       its, fault, adds, removes, buffer, changes, string>>

\* The program deletes its string.
StrDelete ==
    /\ ~fault
    /\ string.live
    /\ string' = [String_destructor(string) EXCEPT !.live = FALSE,
                                                   !.constructed = FALSE]
    /\ call' = Call("~String", 0, 0, 0, TRUE, 0, FALSE)
    /\ UNCHANGED <<heap, alloc, last_, count_, illegal_, constructed, its,
                   fault, adds, removes, buffer, changes>>

NextString ==
    \/ StrCreate
    \/ StrCopy
    \/ StrConcatenate
    \/ StrCompare
    \/ StrDelete

SpecString == InitString /\ [][NextString]_vars

\* ------------------------------------------------------------------ claims
\* C1: getLength() equals the number of add calls that returned true minus
\* the number of elements removed by calls that returned true.
C1_LengthIsAddsMinusRemoves ==
    getLength(ListState) = adds - removes

C1_Witness ==
    /\ constructed
    /\ adds = 3
    /\ removes = 1
    /\ getLength(ListState) = 2

\* C2: get(i) is the i-th element of the logical sequence for every
\* 0 <= i < getLength(), and the illegal value for every other i.
C2_GetIsIthElement ==
    constructed =>
        \A i \in Indices :
            get(ListState, illegal_, i) =
                IF 0 <= i /\ i < Len(Elements(ListState))
                THEN Elements(ListState)[i + 1]
                ELSE illegal_

C2_Witness ==
    /\ constructed
    /\ getLength(ListState) = 3
    /\ get(ListState, illegal_, 0) # get(ListState, illegal_, 1)
    /\ get(ListState, illegal_, 2) # illegal_
    /\ get(ListState, illegal_, 3) = illegal_

\* C3, as stated: for every index with 0 <= index <= getLength(),
\* add(index, e) returns true and leaves the old sequence with e inserted at
\* position index.
C3_AddAlwaysSucceeds ==
    constructed =>
        \A index \in 0..getLength(ListState), e \in Vals, mem \in BOOLEAN :
            LET r == addAt(ListState, index, e, mem)
            IN /\ r.ret
               /\ Elements(r.L) = InsertAt(Elements(ListState), index, e)

\* C3, amended: for every index with 0 <= index <= getLength(), add(index, e)
\* returns true exactly when the node is allocated; it then leaves the old
\* sequence with e inserted at position index, the new node being last
\* when index == getLength(), and last unchanged otherwise; when the
\* allocation fails the list is unchanged.  add(e) is add(getLength(), e).
C3_AddInsertsWhenAllocated ==
    constructed =>
        \A index \in 0..getLength(ListState), e \in Vals, mem \in BOOLEAN :
            LET L == ListState
                r == addAt(L, index, e, mem)
                node == NodeAllocate(L.alloc, mem)
            IN /\ r.ret = (node # NULL)
               /\ r.ret =>
                    /\ Elements(r.L) = InsertAt(Elements(L), index, e)
                    /\ getLength(r.L) = getLength(L) + 1
                    /\ r.L.last_ =
                         IF index = getLength(L) THEN node ELSE L.last_
               /\ ~r.ret => r.L = L
               /\ add(L, e, mem) = addAt(L, getLength(L), e, mem)

C3_Witness ==
    /\ constructed
    /\ call.op = "addAt"
    /\ call.index = 1
    /\ getLength(ListState) = 3
    /\ Elements(ListState)[2] = call.element
    /\ Elements(ListState)[1] # call.element

\* C4: for every index with 0 <= index < getLength(), remove(index) returns
\* true and leaves the old sequence with position index deleted; a removed
\* last node is replaced by its predecessor, or by null when it was alone.
\* removeFirst() and remove() are remove(0), removeLast() is
\* remove(getLength() - 1).
C4_RemoveDeletes ==
    constructed =>
        /\ \A index \in 0..(getLength(ListState) - 1) :
            LET L == ListState
                r == remove(L, index)
            IN /\ r.ret
               /\ Elements(r.L) = DeleteAt(Elements(L), index)
               /\ getLength(r.L) = getLength(L) - 1
               /\ r.L.last_ =
                    IF index < getLength(L) - 1 THEN L.last_
                    ELSE IF getLength(L) = 1 THEN NULL
                    ELSE L.heap[L.last_].prev
        /\ removeFirst(ListState) = remove(ListState, 0)
        /\ removeHead(ListState) = remove(ListState, 0)
        /\ removeLast(ListState)
             = remove(ListState, getLength(ListState) - 1)

C4_Witness ==
    /\ constructed
    /\ call.op = "removeAt"
    /\ call.index = 1
    /\ getLength(ListState) = 2
    /\ Elements(ListState)[1] # Elements(ListState)[2]

\* C5: add(index, e) with index < 0 or index > getLength(), and
\* remove(index) with index < 0 or index >= getLength(), return false and
\* change nothing of the list.
C5_BoundsFailureChangesNothing ==
    constructed =>
        \A index \in Indices :
            /\ (index < 0 \/ index > getLength(ListState)) =>
                 \A e \in Vals, mem \in BOOLEAN :
                     addAt(ListState, index, e, mem)
                         = [L |-> ListState, ret |-> FALSE]
            /\ (index < 0 \/ index >= getLength(ListState)) =>
                 remove(ListState, index) = [L |-> ListState, ret |-> FALSE]

C5_Witness ==
    /\ constructed
    /\ getLength(ListState) = 2
    /\ removes > 0
    /\ ~addAt(ListState, 3, 0, TRUE).ret
    /\ ~addAt(ListState, -1, 0, TRUE).ret
    /\ ~remove(ListState, 2).ret

\* C6: removeElement(v) on a list that holds v returns true and deletes the
\* occurrence of v with the lowest index alone; when v is absent it returns
\* false and changes nothing.
C6_RemoveElementFirstOccurrence ==
    constructed =>
        \A v \in Vals :
            LET L == ListState
                r == removeElement(L, v)
                k == FirstPos(Elements(L), v)
            IN IF k >= 0
               THEN r.ret /\ Elements(r.L) = DeleteAt(Elements(L), k)
               ELSE r = [L |-> L, ret |-> FALSE]

C6_Witness ==
    /\ constructed
    /\ call.op = "removeElement"
    /\ getLength(ListState) = 2
    /\ Elements(ListState)[2] = call.element
    /\ Elements(ListState)[1] # call.element

\* C7: getIndexOf(v) is the smallest i with get(i) == v when v occurs in the
\* list and -1 when it does not; a result i >= 0 is an index of the list.
C7_GetIndexOfFirst ==
    \A v \in Vals :
        LET L == ListState
            k == getIndexOf(L, v)
        IN /\ k = FirstPos(Elements(L), v)
           /\ k >= 0 => /\ isIndex(L, k)
                        /\ constructed => get(L, illegal_, k) = v
           /\ getLength(L) = 0 => k = -1

C7_Witness ==
    /\ getLength(ListState) = 3
    /\ getIndexOf(ListState, 1) = 1
    /\ Elements(ListState) = <<0, 1, 1>>

\* C8, as stated: from any reachable list state add(x) followed by
\* removeLast() both return true and restore the prior length and sequence.
C8_RoundTripAlwaysSucceeds ==
    constructed =>
        \A x \in Vals, mem \in BOOLEAN :
            LET r1 == add(ListState, x, mem)
                r2 == removeLast(r1.L)
            IN /\ r1.ret
               /\ r2.ret
               /\ getLength(r2.L) = getLength(ListState)
               /\ Elements(r2.L) = Elements(ListState)

\* C8, amended: whenever add(x) returns true, the removeLast() that follows
\* returns true and restores the prior length and sequence, get(i) included.
C8_RoundTripAfterSuccessfulAdd ==
    constructed =>
        \A x \in Vals, mem \in BOOLEAN :
            LET r1 == add(ListState, x, mem)
                r2 == removeLast(r1.L)
            IN r1.ret =>
                 /\ r2.ret
                 /\ getLength(r2.L) = getLength(ListState)
                 /\ Elements(r2.L) = Elements(ListState)
                 /\ \A i \in Indices :
                        get(r2.L, illegal_, i) = get(ListState, illegal_, i)

C8_Witness ==
    /\ constructed
    /\ call.op = "add"
    /\ getLength(ListState) = 3
    /\ removeLast(ListState).ret
    /\ getLength(removeLast(ListState).L) = 2

\* C9: an iterator created at index 0 over a list of length n answers
\* hasNext() true exactly n times, its getNext() calls return get(0), ...,
\* get(n-1) in that order, and then hasNext() is false and getNextIndex()
\* is n.
C9_TraversalOrder ==
    constructed =>
        LET L == ListState
            n == getLength(L)
            it == getListIterator(L, 0, TRUE)
            t == Traverse(L, illegal_, it, MaxNodes + 2)
        IN /\ it.live
           /\ ~t.ub
           /\ t.vals = [i \in 1..n |-> get(L, illegal_, i - 1)]
           /\ ~hasNext(L, t.it)
           /\ getNextIndex(L, t.it, NoGarbage) = [ret |-> n, ub |-> FALSE]

C9_Witness ==
    /\ constructed
    /\ call.op = "it.getNext"
    /\ its[1].live
    /\ its[1].self = count_
    /\ its[1].rindex_ = 2
    /\ its[1].curs_ = NULL
    /\ getLength(ListState) = 3
    /\ call.retV = get(ListState, illegal_, 2)

\* C10: after a successful structural change made directly on the list, an
\* iterator created before it is stale: hasNext() and hasPrevious() return
\* false, getNext() and getPrevious() return the illegal value, and none of
\* them moves the cursor or reads a node.
C10_DirectChangeMakesStale ==
    \A i \in IterIds : \A L \in DirectChanges(ListState) : \A g \in Garbage :
        its[i].live =>
            /\ ~hasNext(L, its[i])
            /\ hasPrevious(L, its[i], g) = [ret |-> FALSE, ub |-> FALSE]
            /\ getNext(L, illegal_, its[i], g)
                 = [it |-> its[i], ret |-> illegal_, ub |-> FALSE]
            /\ getPrevious(L, illegal_, its[i], g)
                 = [it |-> its[i], ret |-> illegal_, ub |-> FALSE]

C10_Witness ==
    /\ its[1].live
    /\ its[1].curs_ # NULL
    /\ its[1].self + 1 = count_
    /\ call.op = "removeElement"
    /\ ~hasNext(ListState, its[1])
    /\ getNext(ListState, illegal_, its[1], NoGarbage).ret = illegal_

\* Iterator i exists and its counter copy differs from the list's counter.
Stale(i) == its[i].live /\ its[i].self # count_

\* What a call on iterator it yields when it fails and changes nothing.
Refused(L, it) == [L |-> L, it |-> it, ret |-> FALSE, ub |-> FALSE]

\* C11: on a stale iterator add(e) and remove() return false and leave the
\* list (sequence, length, change counter) and the iterator (cursor,
\* last-returned index, counter copy) unchanged, and read no node.
C11_StaleMutationsFail ==
    \A i \in IterIds :
        Stale(i) =>
            \A e \in Vals, mem \in BOOLEAN, g \in Garbage :
                /\ itAdd(ListState, its[i], e, mem, g)
                     = Refused(ListState, its[i])
                /\ itRemove(ListState, its[i], g)
                     = Refused(ListState, its[i])

C11_Witness ==
    /\ Stale(1)
    /\ its[1].rindex_ # ILLEGAL_INDEX
    /\ its[1].curs_ \in alloc
    /\ getLength(ListState) = 2
    /\ alloc # NodeIds

\* Every call on iterator i fails: hasNext() and hasPrevious() are false,
\* getNext() and getPrevious() return the illegal value, add(e) and remove()
\* return false.
CallsFail(i) ==
    /\ ~hasNext(ListState, its[i])
    /\ \A g \in Garbage :
         /\ ~hasPrevious(ListState, its[i], g).ret
         /\ getNext(ListState, illegal_, its[i], g).ret = illegal_
         /\ getPrevious(ListState, illegal_, its[i], g).ret = illegal_
         /\ ~itRemove(ListState, its[i], g).ret
         /\ \A e \in Vals, mem \in BOOLEAN :
              ~itAdd(ListState, its[i], e, mem, g).ret

\* C12: staleness is permanent (the counter staying below MaxCount): a step
\* from a state where an iterator is stale leaves that iterator as it was
\* and stale, unless it deletes it; and on a stale iterator hasNext() and
\* hasPrevious() are false, getNext() and getPrevious() return the illegal
\* value and add(e) and remove() return false.
C12_StalenessIsPermanent ==
    /\ [][\A i \in IterIds :
            Stale(i) =>
               \/ ~its'[i].live
               \/ /\ its'[i] = its[i]
                  /\ count_' >= count_
                  /\ Stale(i)']_vars
    /\ [](\A i \in IterIds : Stale(i) => CallsFail(i))

C12_Witness ==
    /\ Stale(1)
    /\ its[1].self + 2 <= count_
    /\ call.op = "removeElement"

\* The step is a successful add(e) or remove() through iterator i.
ChangeBy(i) ==
    /\ adds' # adds \/ removes' # removes
    /\ call'.op \in {"it.add", "it.remove"}
    /\ call'.it = i

\* C13, as stated: with two or more iterators on the list, at any time at
\* most one of them, the one that made the most recent structural change,
\* can still change the list.
C13_AtMostOneCanMutate ==
    \A i, j \in IterIds :
        (its[i].live /\ ~Stale(i) /\ its[j].live /\ ~Stale(j)) => i = j

\* C13, amended: a successful add(e) or remove() through one iterator makes
\* every other iterator stale and leaves the one that made it not stale;
\* every call on a stale iterator fails; and an iterator is not stale after
\* a step only if it made the step's change, or the step changed nothing of
\* the list and the iterator was not stale before or was created by it.
C13_ChangeStalesTheOthers ==
    /\ [][\A i, j \in IterIds :
            (ChangeBy(i) /\ j # i /\ its[j].live) =>
                /\ its'[j] = its[j]
                /\ Stale(j)'
                /\ ~Stale(i)']_vars
    /\ [][\A j \in IterIds :
            (its'[j].live /\ ~Stale(j)') =>
                \/ ChangeBy(j)
                \/ /\ adds' = adds /\ removes' = removes
                   /\ ~its[j].live \/ ~Stale(j)]_vars
    /\ [](\A i \in IterIds : Stale(i) => CallsFail(i))

C13_Witness ==
    /\ Cardinality(IterIds) >= 2
    /\ call.op = "it.remove"
    /\ call.it = 2
    /\ its[2].live /\ ~Stale(2)
    /\ Stale(1)
    /\ its[1].curs_ \in alloc
    /\ its[1].rindex_ # ILLEGAL_INDEX

\* The cursor of iterator it is a node of list L or is past the end.
Sound(L, it) == it.curs_ = NULL \/ Valid(L, it.curs_)

\* r is what a successful add(e) or remove() of iterator it on list L
\* yields: both counters are raised by one and are equal, and the iterator
\* is usable: hasNext() follows the cursor alone, and add(e) succeeds when a
\* node is allocated.
OwnChangeKeepsUsable(L, it, r) ==
    r.ret =>
        /\ r.L.count_ = L.count_ + 1
        /\ r.it.self = it.self + 1
        /\ r.it.self = r.L.count_
        /\ hasNext(r.L, r.it) = (r.it.curs_ # NULL)
        /\ Sound(r.L, r.it) =>
             \A e \in Vals :
                 itAdd(r.L, r.it, e, TRUE, NoGarbage).ret
                     = (NodeAllocate(r.L.alloc, TRUE) # NULL)

C15_GetNextWithoutNext ==
    /\ [](\A i \in IterIds : \A g \in Garbage :
            (its[i].live /\ ~hasNext(ListState, its[i])) =>
                getNext(ListState, illegal_, its[i], g)
                    = [it |-> its[i], ret |-> illegal_, ub |-> FALSE])
    /\ [][(call'.op = "it.getNext" /\ its' # its) =>
            /\ hasNext(ListState, its[call'.it])
            /\ UNCHANGED <<heap, alloc, last_, count_, illegal_>>]_vars

C15_Witness ==
    /\ its[1].live /\ ~Stale(1)
    /\ its[1].curs_ = NULL
    /\ its[1].rindex_ = 1
    /\ getLength(ListState) = 2
    /\ call.op = "it.getNext"

\* Iterator i exists, is not stale, and its cursor is a node of the list or
\* is past the end.
Usable(i) == its[i].live /\ ~Stale(i) /\ Sound(ListState, its[i])

\* The cursor of iterator i is not past the end of a list that has elements:
\* it is on a node, or the list is empty.
OnNode(i) == its[i].curs_ # NULL \/ last_ = NULL

\* hasPrevious() of iterator i is true exactly when getNextIndex() > 0, and
\* then getPrevious() returns get(getNextIndex() - 1) and moves the cursor
\* back by one; none of the calls reads through a pointer to no node.
BackwardMirrorsForward(i) ==
    \A g \in GarbageOf(its[i], Garbage) :
        LET L == ListState
            k == getNextIndex(L, its[i], g)
            hp == hasPrevious(L, its[i], g)
            gp == getPrevious(L, illegal_, its[i], g)
        IN /\ ~k.ub /\ ~hp.ub /\ ~gp.ub
           /\ hp.ret = (k.ret > 0)
           /\ hp.ret =>
                /\ gp.ret = get(L, illegal_, k.ret - 1)
                /\ gp.it.rindex_ = k.ret - 1
                /\ getNextIndex(L, gp.it, g).ret = k.ret - 1

\* C16: backward traversal mirrors forward traversal for every iterator
\* that is not stale, the cursor one past the end included, and none of its
\* calls reads through a pointer to no node.
C16_BackwardMirrorsForward ==
    \A i \in IterIds : Usable(i) => BackwardMirrorsForward(i)

\* C16, where the code keeps it: backward traversal mirrors forward
\* traversal for every iterator that is not stale and whose cursor is on a
\* node (or whose list is empty).
C16_BackwardMirrorsForwardOnNode ==
    \A i \in IterIds : (Usable(i) /\ OnNode(i)) => BackwardMirrorsForward(i)

C16_Witness ==
    /\ Usable(1)
    /\ call.op = "it.getPrevious"
    /\ call.it = 1
    /\ ~call.ub
    /\ its[1].rindex_ = 1
    /\ getLength(ListState) = 3
    /\ hasPrevious(ListState, its[1], NoGarbage).ret

\* getNextIndex() of iterator i is the index of the element the next
\* getNext() returns, or getLength(); getPreviousIndex() is the index of the
\* element the next getPrevious() returns, or -1; 0 <= getNextIndex() <=
\* getLength() and getPreviousIndex() == getNextIndex() - 1; neither call
\* reads through a pointer to no node.
IndicesOfTheCursor(i) ==
    \A g \in GarbageOf(its[i], Garbage) :
        LET L == ListState
            ni == getNextIndex(L, its[i], g)
            pi == getPreviousIndex(L, its[i], g)
            gn == getNext(L, illegal_, its[i], g)
            gp == getPrevious(L, illegal_, its[i], g)
        IN /\ ~ni.ub /\ ~pi.ub
           /\ 0 <= ni.ret /\ ni.ret <= getLength(L)
           /\ pi.ret = ni.ret - 1
           /\ ni.ret = IF hasNext(L, its[i]) THEN gn.it.rindex_
                       ELSE getLength(L)
           /\ pi.ret = IF hasPrevious(L, its[i], g).ret
                       THEN gp.it.rindex_ ELSE -1

\* C17: getNextIndex() and getPreviousIndex() are the indices of the
\* elements next to the cursor, within their limits and one apart, for
\* every iterator that is not stale.
C17_IndicesOfTheCursor ==
    \A i \in IterIds : Usable(i) => IndicesOfTheCursor(i)

\* C17, where the code keeps it: the same for every iterator that is not
\* stale and whose cursor is on a node (or whose list is empty).
C17_IndicesOfTheCursorOnNode ==
    \A i \in IterIds : (Usable(i) /\ OnNode(i)) => IndicesOfTheCursor(i)

C17_Witness ==
    /\ Usable(1)
    /\ its[1].curs_ \in alloc
    /\ getLength(ListState) = 3
    /\ getNextIndex(ListState, its[1], NoGarbage).ret = 2
    /\ getPreviousIndex(ListState, its[1], NoGarbage).ret = 1

\* What add(e) of iterator it yields on list L when it returns true: the
\* old sequence with e inserted at k = getNextIndex(); the next getNext()
\* returns what it would have returned before (or there is still no next);
\* and a remove() that follows at once changes nothing and returns false.
AddAtCursor(L, it, e, r) ==
    LET k == getNextIndex(L, it, NoGarbage).ret
    IN /\ ~r.ub
       /\ Elements(r.L) = InsertAt(Elements(L), k, e)
       /\ hasNext(r.L, r.it) = hasNext(L, it)
       /\ getNext(r.L, illegal_, r.it, NoGarbage).ret
            = getNext(L, illegal_, it, NoGarbage).ret
       /\ getNextIndex(r.L, r.it, NoGarbage).ret = k + 1
       /\ \A g \in Garbage : itRemove(r.L, r.it, g) = Refused(r.L, r.it)

\* C18, as stated: on an iterator that is not stale add(e) returns true and
\* the list becomes the old sequence with e inserted at getNextIndex(), the
\* next getNext() is as before, and a remove() at once returns false.
C18_IterAddAlwaysSucceeds ==
    \A i \in IterIds :
        Usable(i) =>
            \A e \in Vals, mem \in BOOLEAN :
                LET r == itAdd(ListState, its[i], e, mem, NoGarbage)
                IN r.ret /\ AddAtCursor(ListState, its[i], e, r)

\* C18, amended: on an iterator that is not stale add(e) returns true
\* exactly when the node is allocated; then the list becomes the old
\* sequence with e inserted at getNextIndex(), the next getNext() is as
\* before, and a remove() at once returns false; when the allocation fails
\* add(e) returns false and changes nothing.
C18_IterAddInsertsWhenAllocated ==
    \A i \in IterIds :
        Usable(i) =>
            \A e \in Vals, mem \in BOOLEAN :
                LET r == itAdd(ListState, its[i], e, mem, NoGarbage)
                IN /\ r.ret = (NodeAllocate(alloc, mem) # NULL)
                   /\ r.ret => AddAtCursor(ListState, its[i], e, r)
                   /\ ~r.ret => r = Refused(ListState, its[i])

C18_Witness ==
    /\ Usable(1)
    /\ call.op = "it.add"
    /\ call.it = 1
    /\ getLength(ListState) = 3
    /\ its[1].curs_ \in alloc
    /\ heap[its[1].curs_].index = 2
    /\ Elements(ListState)[2] = call.element
    /\ Elements(ListState)[1] # call.element

\* The step is a getNext() or getPrevious() of iterator i that returned an
\* element.
ReturnedBy(i) ==
    /\ call'.op \in {"it.getNext", "it.getPrevious"}
    /\ call'.it = i
    /\ its'[i] # its[i]

\* C19: remove() of an iterator returns false and changes neither the list
\* nor the iterator when no getNext() or getPrevious() has returned an
\* element since the iterator was constructed or since its last successful
\* add(e) or remove(): the last-returned index is unset after the
\* constructor and after each successful add(e) and remove(), only a
\* getNext() or getPrevious() that returns an element sets it, and while it
\* is unset remove() is refused; so two remove() calls in a row never
\* remove two elements.
C19_RemoveNeedsReturnedElement ==
    /\ [](\A i \in IterIds :
            its[i].live =>
                /\ its[i].rindex_ = ILLEGAL_INDEX =>
                     \A g \in Garbage :
                         itRemove(ListState, its[i], g)
                             = Refused(ListState, its[i])
                /\ \A g \in GarbageOf(its[i], Garbage) :
                     LET r == itRemove(ListState, its[i], g)
                     IN r.ret =>
                          /\ getLength(r.L) = getLength(ListState) - 1
                          /\ \A g2 \in Garbage :
                                itRemove(r.L, r.it, g2) = Refused(r.L, r.it))
    /\ [](\A index \in Indices :
            getListIterator(ListState, index, TRUE).rindex_ = ILLEGAL_INDEX)
    /\ [][\A i \in IterIds :
            /\ ChangeBy(i) => its'[i].rindex_ = ILLEGAL_INDEX
            /\ (its'[i].live /\ its'[i].rindex_ # ILLEGAL_INDEX) =>
                 \/ ReturnedBy(i)
                 \/ its'[i] = its[i]]_vars

C19_Witness ==
    /\ Usable(1)
    /\ call.op = "it.remove"
    /\ call.it = 1
    /\ its[1].rindex_ = ILLEGAL_INDEX
    /\ its[1].curs_ \in alloc
    /\ getLength(ListState) = 2

\* The last call that changed the state was a getNext() or getPrevious() of
\* iterator i that returned the element at index its[i].rindex_, with no
\* read through a pointer to no node, and the iterator is not stale.
JustReturned(i) ==
    /\ Usable(i)
    /\ call.op \in {"it.getNext", "it.getPrevious"}
    /\ call.it = i
    /\ ~call.ub
    /\ isIndex(ListState, its[i].rindex_)

\* remove() of iterator i returns true, reads through no pointer to no node,
\* and leaves the list's sequence with exactly the position of the
\* last-returned index deleted.
RemovesReturned(i) ==
    \A g \in GarbageOf(its[i], Garbage) :
        LET r == itRemove(ListState, its[i], g)
        IN /\ ~r.ub
           /\ r.ret
           /\ Elements(r.L) = DeleteAt(Elements(ListState), its[i].rindex_)

\* C20: after a getNext() or getPrevious() of an iterator that is not stale
\* returned the element at index i, remove() returns true and leaves the
\* prior sequence with exactly position i deleted, for every i, the tail
\* and the only element of a list included, and reads through no pointer
\* to no node.
C20_RemoveAfterReturn ==
    \A i \in IterIds : JustReturned(i) => RemovesReturned(i)

\* C20, where the code keeps it: the same when the cursor is on a node
\* after the call, that is when the element returned was not the tail
\* returned by getNext().
C20_RemoveAfterReturnOnNode ==
    \A i \in IterIds :
        (JustReturned(i) /\ its[i].curs_ # NULL) => RemovesReturned(i)

C20_Witness ==
    /\ JustReturned(1)
    /\ call.op = "it.getNext"
    /\ its[1].curs_ = NULL
    /\ its[1].rindex_ = 1
    /\ getLength(ListState) = 2

\* The pair getNext(); remove() of iterator it on list L, fuel times, every
\* read through a pointer to no node yielding g: the list and iterator
\* left, the elements getNext() returned, ok: whether every getNext() had a
\* next element and every remove() returned true and deleted the head, and
\* ub: whether a call read through a pointer to no node.
RECURSIVE Drain(_, _, _, _, _)
Drain(L, ill, it, g, fuel) ==
    IF fuel = 0
    THEN [L |-> L, it |-> it, vals |-> <<>>, ok |-> TRUE, ub |-> FALSE]
    ELSE LET n == getNext(L, ill, it, g)
             r == itRemove(L, n.it, g)
             d == Drain(r.L, ill, r.it, g, fuel - 1)
         IN [L |-> d.L,
             it |-> d.it,
             vals |-> <<n.ret>> \o d.vals,
             ok |-> /\ hasNext(L, it)
                    /\ r.ret
                    /\ Elements(r.L) = Tail(Elements(L))
                    /\ d.ok,
             ub |-> n.ub \/ r.ub \/ d.ub]

\* C21: for a list of length n >= 1 and an iterator created at index 0, the
\* pair getNext(); remove() succeeds n times in a row, the getNext() calls
\* return the elements in their order, each remove() deletes the element
\* just returned, no call reads through a pointer to no node, and the list
\* ends empty with hasNext() false.
C21_DrainsTheList ==
    (constructed /\ getLength(ListState) >= 1) =>
        \A g \in Garbage :
            LET L == ListState
                it == getListIterator(L, 0, TRUE)
                d == Drain(L, illegal_, it, g, getLength(L))
            IN /\ it.live
               /\ d.ok
               /\ ~d.ub
               /\ d.vals = Elements(L)
               /\ getLength(d.L) = 0
               /\ ~hasNext(d.L, d.it)

\* C21, where the code keeps it: the same for the first n - 1 pairs, which
\* leave the list with its last element alone.
C21_DrainsAllButTheTail ==
    (constructed /\ getLength(ListState) >= 1) =>
        \A g \in Garbage :
            LET L == ListState
                n == getLength(L)
                it == getListIterator(L, 0, TRUE)
                d == Drain(L, illegal_, it, g, n - 1)
            IN /\ it.live
               /\ d.ok
               /\ ~d.ub
               /\ d.vals = SubSeq(Elements(L), 1, n - 1)
               /\ Elements(d.L) = <<Elements(L)[n]>>
               /\ hasNext(d.L, d.it)

C21_Witness ==
    /\ Usable(1)
    /\ call.op = "it.remove"
    /\ call.it = 1
    /\ ~call.ub
    /\ adds = 2
    /\ removes = 1
    /\ its[1].curs_ = last_
    /\ hasNext(ListState, its[1])

\* What remove() of iterator i does to its cursor, the last state-changing
\* call being the getNext() or getPrevious() that returned the element:
\* after getPrevious() the removed node is the cursor's, and the cursor
\* becomes that node's successor, or past the end when it was the tail, so
\* getNextIndex() is the removed index; after getNext() the cursor is left
\* where it was and the next getNext() returns what it would have returned.
CursorAfterRemove(i) ==
    \A g \in GarbageOf(its[i], Garbage) :
        LET L == ListState
            it == its[i]
            r == itRemove(L, it, g)
        IN /\ ~r.ub
           /\ r.ret
           /\ IF call.op = "it.getPrevious"
              THEN /\ r.it.curs_ = IF it.curs_ = L.last_ THEN NULL
                                   ELSE NextOf(L, it.curs_, g)
                   /\ getNextIndex(r.L, r.it, g).ret = it.rindex_
              ELSE /\ r.it.curs_ = it.curs_
                   /\ hasNext(r.L, r.it) = hasNext(L, it)
                   /\ getNext(r.L, illegal_, r.it, g).ret
                        = getNext(L, illegal_, it, g).ret

\* C22: remove() of an iterator repositions the cursor: to the removed
\* node's successor (past the end for the tail) when the element came from
\* getPrevious(), so that getNextIndex() is the removed index; not at all
\* when it came from getNext(), so that the next getNext() is as it would
\* have been.
C22_CursorAfterRemove ==
    \A i \in IterIds : JustReturned(i) => CursorAfterRemove(i)

\* C22, where the code keeps it: the same when the cursor is on a node,
\* that is when the element was not the tail returned by getNext().
C22_CursorAfterRemoveOnNode ==
    \A i \in IterIds :
        (JustReturned(i) /\ its[i].curs_ # NULL) => CursorAfterRemove(i)

C22_Witness ==
    /\ JustReturned(1)
    /\ call.op = "it.getPrevious"
    /\ its[1].curs_ = heap[last_].next
    /\ its[1].curs_ # last_
    /\ its[1].rindex_ = 0
    /\ getLength(ListState) = 2

\* The iterator getListIterator(index) returns is not NULL, carries the
\* list's change counter and has getNextIndex() = index.
IteratorAt(L, it, index) ==
    /\ it.live
    /\ it.self = L.count_
    /\ Sound(L, it)
    /\ \A g \in Garbage :
          LET n == getNextIndex(L, it, g) IN ~n.ub /\ n.ret = index

\* A step that returns a new iterator changes nothing of the list.
NewIteratorKeepsList ==
    (\E i \in IterIds : ~its[i].live /\ its'[i].live) =>
        UNCHANGED <<heap, alloc, last_, count_, illegal_, constructed>>

\* C23 as stated: getListIterator(index) returns an iterator that is not
\* NULL, not stale and has getNextIndex() = index exactly when the list is
\* constructed and 0 <= index <= getLength(), whatever the allocator answers.
C23_IteratorExactlyInRange ==
    \A index \in Indices, mem \in BOOLEAN :
        LET L == ListState
            it == getListIterator(L, index, mem)
        IN it.live <=> (constructed /\ 0 <= index /\ index <= getLength(L))

\* C23, amended: getListIterator(index) returns an iterator that is not
\* NULL, not stale and has getNextIndex() = index exactly when the list is
\* constructed, 0 <= index <= getLength() and the iterator object is
\* allocated; otherwise it returns NULL; in both cases the list and its
\* change counter are unchanged; getIterator() is getListIterator(0) and
\* succeeds on an empty list when the iterator object is allocated.
C23_IteratorInRangeWhenAllocated ==
    /\ [](\A index \in Indices, mem \in BOOLEAN :
            LET L == ListState
                it == getListIterator(L, index, mem)
            IN /\ it.live <=> /\ constructed
                              /\ 0 <= index /\ index <= getLength(L)
                              /\ mem
               /\ it.live => IteratorAt(L, it, index)
               /\ ~it.live => it = NoIterator)
    /\ []((constructed /\ isEmpty(ListState)) =>
            IteratorAt(ListState, getListIterator(ListState, 0, TRUE), 0))
    /\ [][NewIteratorKeepsList]_vars
    /\ [][(call'.op = "getIterator" /\ call' # call) =>
            its'[call'.it] = getListIterator(ListState, 0, TRUE)]_vars

C23_Witness ==
    /\ call.op = "getListIterator"
    /\ call.index = 2
    /\ getLength(ListState) = 2
    /\ its[1].live /\ ~Stale(1)
    /\ its[1].curs_ = NULL
    /\ ~getListIterator(ListState, 3, TRUE).live
    /\ ~getListIterator(ListState, -1, TRUE).live
    /\ ~getListIterator(ListState, 1, FALSE).live

\* C24: in every reachable state last_ is NULL exactly when the list holds
\* no elements, isEmpty() is true exactly when getLength() is 0, and on a
\* list that is not empty last_ is the node at position getLength() - 1 and
\* its index plus one is the number of nodes in the ring.
C24_LastIsTheTail ==
    LET L == ListState
    IN /\ (last_ = NULL) <=> (adds - removes = 0)
       /\ (last_ = NULL) <=> (alloc = {})
       /\ isEmpty(L) <=> (getLength(L) = 0)
       /\ last_ # NULL =>
            /\ last_ \in alloc
            /\ getLength(L) >= 1
            /\ last_ = getNodeByIndex(L, getLength(L) - 1)
            /\ last_ = NodeStep(heap, heap[last_].next, getLength(L) - 1)
            /\ heap[last_].index + 1 = Cardinality(Ring(heap, last_))

C24_Witness ==
    /\ call.op = "removeLast"
    /\ adds = 3
    /\ removes = 1
    /\ last_ # NULL
    /\ heap[last_].index = 1
    /\ ~isEmpty(ListState)

\* The n nodes of list L form one cycle under next, prev is the inverse of
\* next, and the walk through next from the node after last_ meets the
\* indices 0, 1, ..., n - 1 in that order and is back at its start after n.
RingInvariant(L) ==
    L.last_ # NULL =>
        LET h == L.heap
            n == Cardinality(L.alloc)
            head == h[L.last_].next
            at(k) == NodeStep(h, head, k)
        IN /\ L.last_ \in L.alloc
           /\ Ring(h, L.last_) = L.alloc
           /\ \A m \in L.alloc :
                 /\ h[m].next \in L.alloc
                 /\ h[m].prev \in L.alloc
                 /\ h[h[m].next].prev = m
                 /\ h[h[m].prev].next = m
           /\ \A k \in 0..(n - 1) :
                 /\ at(k) \in L.alloc
                 /\ h[at(k)].index = k
           /\ \A j, k \in 0..(n - 1) : at(j) = at(k) => j = k
           /\ at(n) = head
           /\ \A m \in L.alloc : NodeStep(h, m, n) = m

\* C25: after every successful add or remove, at the head, in the middle
\* or at the tail, the n nodes form one cycle under next, previous is the
\* inverse of next, and the walk through next from the node after last
\* meets the index values 0, 1, ..., n - 1 in that order.
C25_RingAndIndices ==
    /\ RingInvariant(ListState)
    /\ constructed =>
          \A element \in Vals, index \in Indices :
              /\ \A mem \in BOOLEAN :
                    RingInvariant(addNode(ListState, index, element, mem).L)
              /\ RingInvariant(remove(ListState, index).L)

C25_Witness ==
    /\ call.op = "removeAt"
    /\ call.index = 1
    /\ adds = 3
    /\ removes = 1
    /\ Cardinality(alloc) = 2
    /\ heap[heap[last_].next].index = 0

\* C26: clear() on a constructed list ends with the list empty (getLength()
\* is 0, isEmpty() is true, last_ is NULL) after one removal per element,
\* never through the break taken when a removal of the tail fails, and when
\* the list was not empty every iterator that existed before is stale.
C26_ClearEmptiesTheList ==
    /\ [](constructed =>
            LET L == ListState
                r == clear(L)
            IN /\ ~r.broke
               /\ r.n = getLength(L)
               /\ getLength(r.L) = 0
               /\ isEmpty(r.L)
               /\ r.L.last_ = NULL
               /\ r.L.alloc = {}
               /\ r.L.constructed
               /\ getLength(L) >= 1 =>
                     \A i \in IterIds :
                         its[i].live => its[i].self # r.L.count_)
    /\ [][(call'.op = "clear" /\ call' # call) =>
            /\ last_' = NULL
            /\ alloc' = {}
            /\ removes' = adds
            /\ its' = its
            /\ \A i \in IterIds : its[i].live => Stale(i)']_vars

C26_Witness ==
    /\ call.op = "clear"
    /\ call.retV = 2
    /\ last_ = NULL
    /\ isEmpty(ListState)
    /\ its[1].live
    /\ Stale(1)
    /\ its[1].self + 2 = count_

\* C27: peek() and getFirst() equal get(0) and getLast() equals
\* get(getLength() - 1) in every state, the first and the last element of
\* the sequence when there is one; on an empty list the three return the
\* illegal value and removeFirst(), removeLast() and remove() return false
\* and leave the list and its change counter as they were.
C27_HeadAndTailAccessors ==
    LET L == ListState
        s == Elements(L)
    IN /\ peek(L, illegal_) = get(L, illegal_, 0)
       /\ getFirst(L, illegal_) = get(L, illegal_, 0)
       /\ getLast(L, illegal_) = get(L, illegal_, getLength(L) - 1)
       /\ (constructed /\ ~isEmpty(L)) =>
             /\ peek(L, illegal_) = s[1]
             /\ getFirst(L, illegal_) = s[1]
             /\ getLast(L, illegal_) = s[Len(s)]
       /\ isEmpty(L) =>
             /\ peek(L, illegal_) = illegal_
             /\ getFirst(L, illegal_) = illegal_
             /\ getLast(L, illegal_) = illegal_
             /\ removeFirst(L) = [L |-> L, ret |-> FALSE]
             /\ removeLast(L) = [L |-> L, ret |-> FALSE]
             /\ removeHead(L) = [L |-> L, ret |-> FALSE]

C27_Witness ==
    /\ constructed
    /\ call.op = "removeLast"
    /\ adds = 2
    /\ removes = 2
    /\ isEmpty(ListState)
    /\ illegal_ = 1
    /\ getLast(ListState, illegal_) = 1

\* C28: on a list that is not constructed every operation fails and changes
\* nothing: add and every remove return false, get, getFirst, getLast and
\* peek return the illegal value, clear() and setIllegal() change nothing,
\* getListIterator() and getIterator() return NULL, and no step modifies
\* the list.
C28_NotConstructedDoesNothing ==
    /\ [](~constructed =>
            LET L == ListState
                failed == [L |-> L, ret |-> FALSE]
            IN /\ \A element \in Vals, mem \in BOOLEAN :
                     /\ add(L, element, mem) = failed
                     /\ \A index \in Indices :
                           addAt(L, index, element, mem) = failed
               /\ \A index \in Indices :
                     /\ remove(L, index) = failed
                     /\ get(L, illegal_, index) = illegal_
                     /\ \A mem \in BOOLEAN :
                           getListIterator(L, index, mem) = NoIterator
               /\ removeFirst(L) = failed
               /\ removeLast(L) = failed
               /\ removeHead(L) = failed
               /\ \A element \in Vals : removeElement(L, element) = failed
               /\ getFirst(L, illegal_) = illegal_
               /\ getLast(L, illegal_) = illegal_
               /\ peek(L, illegal_) = illegal_
               /\ clear(L) = [L |-> L, n |-> 0, broke |-> FALSE]
               /\ \A value \in Vals : setIllegal(L, illegal_, value) = illegal_)
    /\ [][~constructed => UNCHANGED vars]_vars
    /\ [](~constructed =>
            /\ last_ = NULL /\ alloc = {} /\ count_ = 0
            /\ \A i \in IterIds : ~its[i].live)

C28_Witness ==
    /\ ~constructed
    /\ call.op = "new"
    /\ ~call.retB
    /\ illegal_ = 1
    /\ get(ListState, illegal_, 0) = 1
    /\ ~add(ListState, 0, TRUE).ret

\* Buffer b is the snapshot of list L with illegal value ill: its length is
\* getLength(), its i-th element is get(i) for every i, and its illegal
\* value is the list's.
SnapshotOf(b, L, ill) ==
    /\ b.live
    /\ b.constructed
    /\ b.count_ = getLength(L)
    /\ \A i \in 0..(getLength(L) - 1) : BufferAt(b, i, 0) = [ret |-> get(L, ill, i), ub |-> FALSE]
    /\ b.illegal_ = ill

\* C29 as stated: array() on a constructed list that is not empty returns
\* the snapshot of the list, whatever the build and the allocator.
C29_ArrayAlwaysSnapshots ==
    (constructed /\ ~isEmpty(ListState)) =>
        \A no_strict \in BOOLEAN, memObj \in BOOLEAN, memBuf \in BOOLEAN,
           junk \in Vals :
            SnapshotOf(array(ListState, illegal_, no_strict, memObj, memBuf,
                             junk),
                       ListState, illegal_)

\* C29, amended: in a build that defines EOOS_NO_STRICT_MISRA_RULES, array()
\* on a constructed list that is not empty returns, when the Buffer and its
\* array are allocated, a Buffer of length getLength() whose i-th element
\* is get(i) for every i and whose illegal value is the list's; in every
\* other case, the empty list among them, it returns NULL; it changes
\* neither the list nor its change counter; and no later change of the list
\* alters a Buffer already returned.
C29_ArraySnapshotsWhenAllocated ==
    /\ [](\A no_strict \in BOOLEAN, memObj \in BOOLEAN, memBuf \in BOOLEAN,
             junk \in Vals :
            LET L == ListState
                b == array(L, illegal_, no_strict, memObj, memBuf, junk)
            IN /\ b.live <=> /\ constructed /\ ~isEmpty(L)
                             /\ no_strict /\ memObj /\ memBuf
               /\ b.live => SnapshotOf(b, L, illegal_)
               /\ ~b.live => b = NoBuffer)
    /\ [][(call'.op = "array" /\ call' # call) =>
            /\ SnapshotOf(buffer', ListState, illegal_)
            /\ UNCHANGED <<heap, alloc, last_, count_, illegal_, constructed,
                           its, adds, removes>>]_vars
    /\ [][(buffer.live /\ call'.op # "delete array") =>
            buffer' = buffer]_vars

\* A Buffer taken from a list of two different elements, the list then
\* emptied and its illegal value changed: the Buffer still holds both.
C29_Witness ==
    /\ buffer.live
    /\ buffer.count_ = 2
    /\ BufferAt(buffer, 0, 0).ret = 1
    /\ BufferAt(buffer, 1, 0).ret = 0
    /\ call.op = "setIllegal"
    /\ isEmpty(ListState)
    /\ buffer.illegal_ # illegal_

\* The nodes list L has allocated are the nodes linked in its ring, and
\* every other slot of the arena is free.
OwnsItsNodes(L) ==
    /\ L.alloc = IF L.last_ = NULL THEN {} ELSE Ring(L.heap, L.last_)
    /\ \A n \in NodeIds \ L.alloc : L.heap[n] = FreeNode

RefusedAndReadsKeepCount ==
    LET L == ListState
    IN /\ \A index \in Indices, element \in Vals, mem \in BOOLEAN :
             /\ ~add(L, element, mem).ret => add(L, element, mem).L = L
             /\ ~addAt(L, index, element, mem).ret =>
                    addAt(L, index, element, mem).L = L
             /\ ~remove(L, index).ret => remove(L, index).L = L
             /\ ~removeElement(L, element).ret =>
                    removeElement(L, element).L = L
       /\ ~removeFirst(L).ret => removeFirst(L).L = L
       /\ ~removeLast(L).ret => removeLast(L).L = L
       /\ ~removeHead(L).ret => removeHead(L).L = L
       /\ isEmpty(L) => clear(L).L = L
       /\ \A i \in IterIds : \A g \in GarbageOf(its[i], Garbage) :
             its[i].live =>
                /\ getNext(L, illegal_, its[i], g).it.self = its[i].self
                /\ getPrevious(L, illegal_, its[i], g).it.self = its[i].self
                /\ ~itRemove(L, its[i], g).ret =>
                       itRemove(L, its[i], g).L = L
                /\ \A element \in Vals, mem \in BOOLEAN :
                       ~itAdd(L, its[i], element, mem, g).ret =>
                           itAdd(L, its[i], element, mem, g).L = L

\* C31: only structural changes invalidate iterators: count_ changes only
\* in a step in which an add or a remove succeeded, so the reads of the
\* list and of its iterators, array(), setIllegal(), the creation of an
\* iterator, every refused add and remove and clear() of an empty list
\* leave it unchanged, and an iterator that is not stale stays so across
\* them.
C31_OnlyChangesInvalidate ==
    /\ [][count_' # count_ => (adds' > adds \/ removes' > removes)]_vars
    /\ [][(adds' = adds /\ removes' = removes) =>
            /\ UNCHANGED <<heap, alloc, last_, count_>>
            /\ \A i \in IterIds :
                  (its[i].live /\ ~Stale(i) /\ its'[i].live) => ~Stale(i)']_vars
    /\ []RefusedAndReadsKeepCount

C31_Witness ==
    /\ call.op = "array"
    /\ buffer.live
    /\ its[1].live
    /\ ~Stale(1)
    /\ its[1].rindex_ = 1
    /\ count_ = 2

\* C32: with count_ an integer of CounterBits bits that wraps, an iterator
\* created before k >= 1 changes made on the list itself is stale, and its
\* hasNext() false, for every k, k = 2 ^ CounterBits included.
C32_StaleDespiteWrap ==
    \A i \in IterIds :
        (its[i].live /\ changes >= 1) =>
            (Stale(i) /\ ~hasNext(ListState, its[i]))

\* C32 short of a whole turn of the counter: the same for every k that is
\* not a multiple of 2 ^ CounterBits.
C32_StaleBelowWrap ==
    \A i \in IterIds :
        (its[i].live /\ changes % (2 ^ CounterBits) # 0) =>
            (Stale(i) /\ ~hasNext(ListState, its[i]))

C32_Witness ==
    /\ its[1].live
    /\ changes = 2 ^ CounterBits
    /\ its[1].self = count_
    /\ its[1].curs_ # NULL
    /\ hasNext(ListState, its[1])

\* Iterator i has nothing to return backwards: it is stale, or the list is
\* empty, or its cursor is on the head.
NothingBefore(i) ==
    \/ Stale(i)
    \/ last_ = NULL
    \/ Valid(ListState, its[i].curs_) /\ heap[its[i].curs_].prev = last_

\* With ill the illegal value of the list, every failing read returns it:
\* get() out of range, getNext() of an iterator without a next and
\* getPrevious() of an iterator without a previous.
FailingReadsReturn(ill) ==
    LET L == ListState
    IN /\ \A index \in Indices :
             ~isIndex(L, index) => get(L, ill, index) = ill
       /\ \A i \in IterIds : \A g \in Garbage :
             its[i].live =>
                /\ ~hasNext(L, its[i]) =>
                      getNext(L, ill, its[i], g)
                        = [it |-> its[i], ret |-> ill, ub |-> FALSE]
                /\ NothingBefore(i) =>
                      getPrevious(L, ill, its[i], g)
                        = [it |-> its[i], ret |-> ill, ub |-> FALSE]

\* C33: the illegal value is shared and live: after setIllegal(v) on the
\* list or through one of its iterators every failing read of the list and
\* of every iterator, those created before the call included, returns v;
\* and setIllegal changes neither the sequence nor an iterator.
C33_IllegalIsShared ==
    /\ [](constructed =>
            /\ FailingReadsReturn(illegal_)
            /\ \A value \in Vals :
                  /\ setIllegal(ListState, illegal_, value) = value
                  /\ FailingReadsReturn(setIllegal(ListState, illegal_, value)))
    /\ [][(call'.op \in {"setIllegal", "it.setIllegal"} /\ call' # call) =>
            /\ illegal_' = call'.element
            /\ UNCHANGED <<heap, alloc, last_, count_, constructed, its>>]_vars

C33_Witness ==
    /\ call.op = "it.setIllegal"
    /\ call.element = 1
    /\ illegal_ = 1
    /\ its[1].live
    /\ ~Stale(1)
    /\ getLength(ListState) = 2
    /\ its[1].curs_ = NULL
    /\ getNext(ListState, illegal_, its[1], NoGarbage).ret = 1

\* C34: a stale iterator reports the boundary indices without a fault:
\* getNextIndex() is the list's getLength() and getPreviousIndex() is -1,
\* wherever the cursor is, and neither reads through the cursor, which may
\* be a node the list has deleted.
C34_StaleBoundaryIndices ==
    \A i \in IterIds :
        Stale(i) =>
            \A g \in Garbage :
                /\ getNextIndex(ListState, its[i], g)
                     = [ret |-> getLength(ListState), ub |-> FALSE]
                /\ getPreviousIndex(ListState, its[i], g)
                     = [ret |-> -1, ub |-> FALSE]

C34_Witness ==
    /\ Stale(1)
    /\ call.op = "removeFirst"
    /\ its[1].curs_ # NULL
    /\ ~Valid(ListState, its[1].curs_)
    /\ getLength(ListState) = 1
    /\ getNextIndex(ListState, its[1], NoGarbage).ret = 1

\* What operator [](i) of Buffer b is to return: element i inside the
\* array of a constructed Buffer, the illegal value everywhere else.
ElementOrIllegal(b, i) ==
    IF b.constructed /\ b.store /\ 0 <= i /\ i < b.count_
    THEN b.buf_[i + 1]
    ELSE b.illegal_

\* C35: element access never leaves the Buffer: operator [](i) is element i
\* for 0 <= i < n and the illegal value for every other i, negative i
\* included, and whenever the Buffer is not constructed or has no array.
C35_AccessStaysInside ==
    buffer.live =>
        \A i \in BufIdx, g \in Vals :
            BufferAt(buffer, i, g)
              = [ret |-> ElementOrIllegal(buffer, i), ub |-> FALSE]

\* C35 from 0 on: the same for every i >= 0, and for every i on a Buffer
\* that is not constructed.
C35_AccessStaysInsideFromZero ==
    buffer.live =>
        \A i \in BufIdx, g \in Vals :
            (i >= 0 \/ ~buffer.constructed) =>
                BufferAt(buffer, i, g)
                  = [ret |-> ElementOrIllegal(buffer, i), ub |-> FALSE]

C35_Witness ==
    /\ buffer.live
    /\ buffer.constructed
    /\ buffer.count_ = 2
    /\ call.op = "set"
    /\ buffer.buf_ = <<0, 1>>
    /\ BufferAt(buffer, -1, 1).ub
    /\ BufferAt(buffer, 2, 1).ret = buffer.illegal_

\* What fill(value, index, count) is to leave of Buffer b: value at the
\* positions i with index <= i < index + count inside the array, and
\* everything else as it was.
Filled(b, value, index, count) ==
    [b EXCEPT !.buf_ =
        [k \in 1..b.count_ |->
            IF index <= k - 1 /\ k - 1 < index + count THEN value ELSE @[k]]]

\* C36: fill(value, index, count) on a constructed Buffer of length n
\* writes value to exactly the positions i with index <= i < index + count
\* and 0 <= i < n and never outside the array, for any index and count,
\* negative ones and index >= n included; fill(value) sets all n elements
\* and fill(value, count) the first min(count, n).
C36_FillStaysInside ==
    (buffer.live /\ buffer.constructed) =>
        \A value \in Vals :
            /\ \A index \in FillArgs, count \in FillArgs :
                  fill(buffer, value, index, count)
                    = [b |-> Filled(buffer, value, index, count),
                       ub |-> FALSE]
            /\ \A count \in FillArgs :
                  fillCount(buffer, value, count)
                    = [b |-> Filled(buffer, value, 0,
                                    Min(count, buffer.count_)),
                       ub |-> FALSE]
            /\ fillAll(buffer, value)
                 = [b |-> Filled(buffer, value, 0, buffer.count_),
                    ub |-> FALSE]

\* C36 for the indices from 0 on whose sum with count is an int32.
C36_FillStaysInsideFromZero ==
    (buffer.live /\ buffer.constructed) =>
        \A value \in Vals :
            /\ \A index \in FillArgs, count \in FillArgs :
                  (index >= 0 /\ index + count <= MaxInt) =>
                      fill(buffer, value, index, count)
                        = [b |-> Filled(buffer, value, index, count),
                           ub |-> FALSE]
            /\ \A count \in FillArgs :
                  fillCount(buffer, value, count)
                    = [b |-> Filled(buffer, value, 0,
                                    Min(count, buffer.count_)),
                       ub |-> FALSE]
            /\ fillAll(buffer, value)
                 = [b |-> Filled(buffer, value, 0, buffer.count_),
                    ub |-> FALSE]

C36_Witness ==
    /\ buffer.live
    /\ buffer.constructed
    /\ buffer.count_ = 3
    /\ call.op = "fillRange"
    /\ call.index = 1
    /\ buffer.buf_ = <<0, 1, 1>>
    /\ fill(buffer, 0, -1, 2).ub

\* What the assignment of src is to leave of Buffer b: src[i] at the
\* positions below both lengths, everything else, count_ and illegal_
\* included, as it was.
Cropped(b, src) ==
    [b EXCEPT !.buf_ =
        [k \in 1..b.count_ |->
            IF k <= Min(b.count_, src.count_)
            THEN ElementOrIllegal(src, k - 1)
            ELSE @[k]]]

\* C37: the assignment crops: assigning Buffer src to a constructed Buffer
\* copies src[i] to position i for exactly the i below both lengths, leaves
\* the elements above, the length and the illegal value as they were, and
\* reads nothing outside src.
C37_AssignmentCrops ==
    (buffer.live /\ buffer.constructed) =>
        \A src \in Buffers, g \in Vals :
            copy(buffer, src, g) = [b |-> Cropped(buffer, src), ub |-> FALSE]

\* C37 for a source that is constructed.
C37_AssignmentCropsConstructed ==
    (buffer.live /\ buffer.constructed) =>
        \A src \in Buffers, g \in Vals :
            src.constructed =>
                copy(buffer, src, g)
                  = [b |-> Cropped(buffer, src), ub |-> FALSE]

C37_Witness ==
    /\ buffer.live
    /\ buffer.constructed
    /\ buffer.count_ = 3
    /\ call.op = "assign"
    /\ call.index = 2
    /\ buffer.buf_ = <<1, 1, 0>>
    /\ copy(buffer, BufferNew(2, 0, FALSE, 0), 1).ub

\* Sequence a comes before sequence b in the lexicographic order: a is a
\* proper prefix of b, or a has the lesser character at the first position
\* where they differ.
LexLess(a, b) ==
    \/ /\ Len(a) < Len(b)
       /\ \A i \in 1..Len(a) : a[i] = b[i]
    \/ \E i \in 1..Min(Len(a), Len(b)) :
           /\ a[i] < b[i]
           /\ \A j \in 1..(i - 1) : a[j] = b[j]

\* compare(str) fails: the string is not constructed or holds no
\* characters, or str is NULL.
CompareFails(S, str) == ~S.constructed \/ S.context_.str = NULL \/ str.null

\* C38: compare(str) orders lexicographically: it returns 0 exactly when the
\* stored string and str have the same characters, less than 0 when the
\* stored string is lexicographically less, more than 0 when it is greater,
\* for all pairs of strings, those of different lengths too; it returns the
\* minimum int32 value only when the string is not constructed, holds no
\* characters, or str is NULL.
C38_CompareIsLexicographic ==
    string.live =>
        \A str \in CStrings :
            LET r == String_compare(string, str)
            IN IF CompareFails(string, str)
               THEN r = MINIMUM_POSSIBLE_VALUE_OF_INT32
               ELSE /\ r # MINIMUM_POSSIBLE_VALUE_OF_INT32
                    /\ (r = 0) <=> (Stored(string) = str.chars)
                    /\ (r < 0) <=> LexLess(Stored(string), str.chars)
                    /\ (r > 0) <=> LexLess(str.chars, Stored(string))

\* C38 as the code orders: by length first, and lexicographically among
\* strings of one length.
C38_CompareIsByLengthFirst ==
    string.live =>
        \A str \in CStrings :
            LET r == String_compare(string, str)
            IN IF CompareFails(string, str)
               THEN r = MINIMUM_POSSIBLE_VALUE_OF_INT32
               ELSE /\ r # MINIMUM_POSSIBLE_VALUE_OF_INT32
                    /\ (r = 0) <=> (Stored(string) = str.chars)
                    /\ Len(Stored(string)) # StrLen(str)
                         => r = Len(Stored(string)) - StrLen(str)
                    /\ Len(Stored(string)) = StrLen(str)
                         => /\ (r < 0) <=> LexLess(Stored(string), str.chars)
                            /\ (r > 0) <=> LexLess(str.chars, Stored(string))

\* compare("ab") has returned less than 0 on the string "b".
C38_Witness ==
    /\ string.live
    /\ string.constructed
    /\ Stored(string) = <<2>>
    /\ call.op = "compare"
    /\ call.index = 2
    /\ call.retV < 0
    /\ String_compare(string, CStr(<<1, 2>>)) = call.retV
    /\ LexLess(<<1, 2>>, Stored(string))

\* The context of string S is consistent: 0 <= len <= max, no block means
\* len = 0 and max = 0, the block holds len characters, and the memory in
\* use is the block of the context and nothing else.
ContextConsistent(S) ==
    /\ 0 <= S.context_.len
    /\ S.context_.len <= S.context_.max
    /\ S.context_.str = NULL => (S.context_.len = 0 /\ S.context_.max = 0)
    /\ Len(Stored(S)) = S.context_.len
    /\ S.used = {S.context_.str} \ {NULL}
    /\ \A b \in BlockIds \ S.used : S.chars[b] = <<>>

\* copy(str) has to take a new block: str is longer than the capacity.
CopyAllocates(S, str) == StrLen(str) > S.context_.max

\* concatenate(str) has to take a new block.
ConcatenateAllocates(S, str) == S.context_.len + StrLen(str) > S.context_.max

\* C39: copy(str) and concatenate(str) are all-or-nothing and keep the
\* context consistent: they return false exactly for a NULL argument, a
\* string that is not constructed, no current block (concatenate) or a
\* failed allocation, and then characters, length, capacity and the memory
\* in use are unchanged; in every reachable state 0 <= len <= max, and no
\* block implies len = 0 and max = 0; after a successful copy getLength() is
\* the length of str, after a successful concatenate it is the old length
\* plus the length of str.
C39_CopyAndConcatenateAllOrNothing ==
    /\ ContextConsistent(string)
    /\ string.live =>
        \A str \in CStrings, mem \in BOOLEAN :
            LET c == String_copy(string, str, mem)
                a == String_concatenate(string, str, mem)
            IN /\ ContextConsistent(c.S)
               /\ ContextConsistent(a.S)
               /\ ~c.ret <=> \/ ~string.constructed
                             \/ str.null
                             \/ CopyAllocates(string, str) /\ ~mem
               /\ ~a.ret <=> \/ ~string.constructed
                             \/ str.null
                             \/ string.context_.str = NULL
                             \/ ConcatenateAllocates(string, str) /\ ~mem
               /\ ~c.ret => c.S = string
               /\ ~a.ret => a.S = string
               /\ c.ret => /\ String_getLength(c.S) = StrLen(str)
                           /\ Stored(c.S) = str.chars
               /\ a.ret => /\ String_getLength(a.S)
                                = String_getLength(string) + StrLen(str)
                           /\ Stored(a.S) = Stored(string) \o str.chars

\* concatenate of two characters has left "abab" in a second block, the
\* first one given back.
C39_Witness ==
    /\ string.live
    /\ string.constructed
    /\ call.op = "concatenate"
    /\ call.retB
    /\ call.index = 2
    /\ Stored(string) = <<1, 2, 1, 2>>
    /\ string.context_ = [str |-> 2, len |-> 4, max |-> 5]
    /\ string.used = {2}
    /\ ConcatenateAllocates(string, CStr(<<1, 2>>))

====
